---- MODULE Spec2Model ----
(***************************************************************************)
(* Indoor navigation: the navigation-graph builder                         *)
(* (services/graphGenerator.ts), the geometry kernel (utils/geometry.ts)   *)
(* and the path solver of the useGraph hook (hooks/useGraph.ts); the       *)
(* dataset store (services/dbService.ts) and the pages that use both       *)
(* (App.tsx, pages/MapPage.tsx, components/Controls.tsx).                  *)
(*                                                                         *)
(* Numbers.  Coordinates and distances are fixed-point integers, one unit  *)
(* = 0.0001 of the source's coordinate unit; Math.hypot is rounded down.   *)
(* In these units the source's 0.002 vertical penalty is 20, its 0.005     *)
(* proximity limit is 50, and its EPSILON of 1e-6 is 1/100 of a unit as a  *)
(* length and 100 square units as a cross product.                         *)
(***************************************************************************)
EXTENDS Integers, Sequences, FiniteSets, TLC

VARIABLES data, navGraph, pc, startId, endId, filter, distances, previous,
          queue, result, waypoints, pathDistance,
          db, datasets, currentPage, startUnit, endUnit, pagePath,
          pathInstructions, isGeneratingInstructions, requests

vars == <<data, navGraph, pc, startId, endId, filter, distances, previous,
          queue, result, waypoints, pathDistance,
          db, datasets, currentPage, startUnit, endUnit, pagePath,
          pathInstructions, isGeneratingInstructions, requests>>

\* the state of the store, of the App and of MapPage beside the hook's
appVars == <<db, datasets, currentPage, startUnit, endUnit, pagePath,
             pathInstructions, isGeneratingInstructions, requests>>

-----------------------------------------------------------------------------
(* Values of the source language *)

\* JavaScript null / undefined, for string-valued fields
Null == "null"

Undefined == "undefined"

\* enum UnitType
CLASSROOM == "CLASSROOM"

CORRIDOR == "CORRIDOR"

ELEVATOR == "ELEVATOR"

STAIRS == "STAIRS"

OFFICE == "OFFICE"

RESTRICTED == "RESTRICTED"

ENTRANCE == "ENTRANCE"

RESTAURANT == "RESTAURANT"

\* enum AccessibilityFilter
NONE == "NONE"

ELEVATOR_ONLY == "ELEVATOR_ONLY"

AccessibilityFilter == {NONE, ELEVATOR_ONLY}

\* Number.POSITIVE_INFINITY: above every finite distance of the model
Infinity == 1000000

-----------------------------------------------------------------------------
(* Geometry kernel: utils/geometry.ts *)

\* EPSILON = 1e-6: 1/EpsilonInv of a unit of length, EpsilonInv square units
EpsilonInv == 100

Abs(n) == IF n < 0 THEN -n ELSE n

\* Math.sqrt, rounded down
RECURSIVE ISqrt(_)
ISqrt(n) ==
    IF n < 2 THEN n
    ELSE LET s == 2 * ISqrt(n \div 4)
         IN  IF (s + 1) * (s + 1) <= n THEN s + 1 ELSE s

Pt(px, py) == [x |-> px, y |-> py]

\* Math.hypot(dx, dy), rounded down
Hypot(dx, dy) == ISqrt(dx * dx + dy * dy)

getEuclideanDistance(p1, p2) == Hypot(p2.x - p1.x, p2.y - p1.y)

\* Math.hypot(a.x - b.x, a.y - b.y) < EPSILON
NearlyEqual(a, b) == Hypot(a.x - b.x, a.y - b.y) * EpsilonInv < 1

\* R = 6371e3 metres: one unit of angle (0.0001 degree) of a great circle is
\* 11.12 m, 111 decimetres
ArcPerUnit == 111

\* the great-circle distance in decimetres.  The coordinates of the model lie
\* within 0.2 degree of the equator and of each other, where cos(phi) is 1 to
\* six places and R * c is R times the planar distance of the two angles.
getHaversineDistance(p1, p2) ==
    IF NearlyEqual(p1, p2) THEN 0
    ELSE ArcPerUnit * Hypot(p1.x - p2.x, p1.y - p2.y)

\* a mutation of isPointOnSegment: only the cross product is tested
isPointOnLine(p, a, b) ==
    LET crossProduct == (p.y - a.y) * (b.x - a.x) - (p.x - a.x) * (b.y - a.y)
    IN  ~(Abs(crossProduct) > EpsilonInv)

isPointOnSegment(p, a, b) ==
    LET crossProduct == (p.y - a.y) * (b.x - a.x) - (p.x - a.x) * (b.y - a.y)
        dotProduct == (p.x - a.x) * (b.x - a.x) + (p.y - a.y) * (b.y - a.y)
        squaredLength == (b.x - a.x) * (b.x - a.x) + (b.y - a.y) * (b.y - a.y)
    IN  IF Abs(crossProduct) > EpsilonInv THEN FALSE
        ELSE IF dotProduct < 0 THEN FALSE
        ELSE IF dotProduct > squaredLength THEN FALSE
        ELSE TRUE

areCollinear(p1, p2, p3) ==
    LET crossProduct == (p2.y - p1.y) * (p3.x - p2.x) - (p2.x - p1.x) * (p3.y - p2.y)
        dist1 == Hypot(p2.x - p1.x, p2.y - p1.y)
        dist2 == Hypot(p3.x - p2.x, p3.y - p2.y)
    IN  Abs(crossProduct) * EpsilonInv < dist1 + dist2

\* the points of a sequence, each kept at its first occurrence only
\* (toFixed(6) keys: on the model's grid two keys agree iff the points agree)
RECURSIVE UniquePoints(_)
UniquePoints(ps) ==
    IF ps = <<>> THEN <<>>
    ELSE LET front == UniquePoints(SubSeq(ps, 1, Len(ps) - 1))
             last == ps[Len(ps)]
         IN  IF \E k \in 1..Len(front) : front[k] = last
             THEN front ELSE Append(front, last)

\* the k < l loop over uniquePoints: the first pair of greatest distance
FarthestPair(up) ==
    LET Pairs == {kl \in (1..Len(up)) \X (1..Len(up)) : kl[1] < kl[2]}
        D(kl) == Hypot(up[kl[1]].x - up[kl[2]].x, up[kl[1]].y - up[kl[2]].y)
        Before(a, b) == a[1] < b[1] \/ (a[1] = b[1] /\ a[2] < b[2])
        best == CHOOSE kl \in Pairs :
                    \A o \in Pairs : D(o) < D(kl) \/ (D(o) = D(kl) /\ ~Before(o, kl))
    IN  [found |-> TRUE, seg |-> <<up[best[1]], up[best[2]]>>, maxDist |-> D(best)]

NoEdge == [found |-> FALSE, seg |-> <<>>]

\* the body of the inner loop of findSharedEdge for edge i of poly1 and edge j of poly2
SharedAt(poly1, poly2, i, j) ==
    LET p1 == poly1[i]
        p2 == poly1[(i % Len(poly1)) + 1]
        q1 == poly2[j]
        q2 == poly2[(j % Len(poly2)) + 1]
    IN  IF NearlyEqual(p1, q2) /\ NearlyEqual(p2, q1)
        THEN [found |-> TRUE, seg |-> <<p1, p2>>]
        ELSE IF areCollinear(p1, p2, q1) /\ areCollinear(p1, p2, q2)
        THEN LET overlapPoints ==
                     (IF isPointOnSegment(p1, q1, q2) THEN <<p1>> ELSE <<>>) \o
                     (IF isPointOnSegment(p2, q1, q2) THEN <<p2>> ELSE <<>>) \o
                     (IF isPointOnSegment(q1, p1, p2) THEN <<q1>> ELSE <<>>) \o
                     (IF isPointOnSegment(q2, p1, p2) THEN <<q2>> ELSE <<>>)
                 uniquePoints == UniquePoints(overlapPoints)
             IN  IF Len(uniquePoints) >= 2
                 THEN LET far == FarthestPair(uniquePoints)
                      IN  IF far.maxDist * EpsilonInv > 1   \* maxDist > EPSILON
                          THEN [found |-> TRUE, seg |-> far.seg]
                          ELSE NoEdge
                 ELSE NoEdge
        ELSE NoEdge

\* findSharedEdge: the result of the first (i, j), in loop order, that returns
findSharedEdge(poly1, poly2) ==
    LET IJ == (1..Len(poly1)) \X (1..Len(poly2))
        Hits == {ij \in IJ : SharedAt(poly1, poly2, ij[1], ij[2]).found}
        Before(a, b) == a[1] < b[1] \/ (a[1] = b[1] /\ a[2] < b[2])
    IN  IF Hits = {} THEN NoEdge
        ELSE LET first == CHOOSE ij \in Hits : \A o \in Hits : o = ij \/ Before(ij, o)
             IN  SharedAt(poly1, poly2, first[1], first[2])

RECURSIVE SumX(_)
SumX(polygon) ==
    IF polygon = <<>> THEN 0 ELSE polygon[1].x + SumX(Tail(polygon))

RECURSIVE SumY(_)
SumY(polygon) ==
    IF polygon = <<>> THEN 0 ELSE polygon[1].y + SumY(Tail(polygon))

getPolygonCenter(polygon) ==
    IF Len(polygon) = 0 THEN Pt(0, 0)
    ELSE Pt(SumX(polygon) \div Len(polygon), SumY(polygon) \div Len(polygon))

-----------------------------------------------------------------------------
(* Graph builder: services/graphGenerator.ts *)

\* the unit ids of the generated plans, by position
IdOrder == <<"U1", "U2", "U3", "U4", "U5", "U6">>

\* every unit id of the model, in the order of Array.prototype.sort (by code unit)
SortedIds ==
    <<"U1", "U100", "U101", "U102", "U103", "U104", "U105", "U106", "U107",
      "U108", "U109", "U2", "U201", "U202", "U203", "U204", "U205", "U206",
      "U207", "U208", "U209", "U3", "U4", "U5", "U6">>

IdRank(id) == CHOOSE k \in 1..Len(SortedIds) : SortedIds[k] = id

\* the 0.002 added to the weight of a vertical edge
VerticalPenalty == 20

\* the 0.005 below which the fallback pass connects an isolated unit
ProximityLimit == 50

EmptyEdges == [k \in {} |-> <<>>]

EdgesOf(edges, id) == IF id \in DOMAIN edges THEN edges[id] ELSE <<>>

Edge(a, b, weight, type) == [from |-> a, to |-> b, weight |-> weight, type |-> type]

\* a mutation of addEdge: only the edge A -> B is stored
addEdgeOneWay(edges, nodeAId, nodeBId, weight, type) ==
    LET e1 == IF nodeAId \in DOMAIN edges THEN edges ELSE edges @@ (nodeAId :> <<>>)
    IN  [e1 EXCEPT ![nodeAId] = Append(@, Edge(nodeAId, nodeBId, weight, type))]

addEdge(edges, nodeAId, nodeBId, weight, type) ==
    LET e1 == IF nodeAId \in DOMAIN edges THEN edges ELSE edges @@ (nodeAId :> <<>>)
        e2 == IF nodeBId \in DOMAIN e1 THEN e1 ELSE e1 @@ (nodeBId :> <<>>)
        e3 == [e2 EXCEPT ![nodeAId] = Append(@, Edge(nodeAId, nodeBId, weight, type))]
    IN  [e3 EXCEPT ![nodeBId] = Append(@, Edge(nodeBId, nodeAId, weight, type))]

\* a mutation of IsTraversable: the accessible flag opts a unit out
IsTraversableByFlag(u) == u.type # RESTRICTED /\ u.accessible # "false"

\* a mutation of IsTraversable: the units kept are those flagged accessible
IsTraversableLegacy(u) == u.accessible = "true"

\* a mutation of IsTraversable: no unit is filtered out
IsTraversableAll(u) == TRUE

\* the predicate of data.units.filter(...)
IsTraversable(u) == u.type # RESTRICTED

TraversableUnits(d) == SelectSeq(d.units, IsTraversable)

\* a mutation of CenterNode: the unit's type is not copied to the node
CenterNodeUntyped(unit) ==
    [id |-> unit.id, type |-> "center", point |-> getPolygonCenter(unit.polygon),
     levelId |-> unit.levelId, originalUnitId |-> unit.id, unitType |-> Undefined]

CenterNode(unit) ==
    [id |-> unit.id, type |-> "center", point |-> getPolygonCenter(unit.polygon),
     levelId |-> unit.levelId, originalUnitId |-> unit.id, unitType |-> unit.type]

\* STEP 2: one centroid node per traversable unit
CenterNodes(tu) == [k \in 1..Len(tu) |-> CenterNode(tu[k])]

\* a mutation of transitTypes: only the walkways are transit spaces
transitTypesWalkways == {CORRIDOR, ENTRANCE}

transitTypes == {CORRIDOR, STAIRS, ELEVATOR, ENTRANCE}

\* a mutation of doorNodeId: the two ids are joined in the order they are met
doorNodeIdUnsorted(idA, idB) == "door-" \o idA \o "--" \o idB

\* `door-${[unitA.id, unitB.id].sort().join('--')}`
doorNodeId(idA, idB) ==
    IF IdRank(idA) <= IdRank(idB)
    THEN "door-" \o idA \o "--" \o idB
    ELSE "door-" \o idB \o "--" \o idA

\* the else branch of the transit test: a waypoint node at the middle of the
\* shared edge, if the graph holds none of that id, and an edge from each
\* centre to it
ConnectByDoor(g, unitA, unitB, doorMidpoint, door) ==
    LET nodes1 ==
            IF \E k \in 1..Len(g.nodes) : g.nodes[k].id = door
            THEN g.nodes
            ELSE Append(g.nodes,
                   [id |-> door, type |-> "waypoint",
                    point |-> doorMidpoint, levelId |-> unitA.levelId,
                    originalUnitId |->
                        IF unitA.type \in transitTypes THEN unitB.id ELSE unitA.id,
                    unitType |-> Undefined])
        edges1 == addEdge(g.edges, unitA.id, door,
                    getEuclideanDistance(getPolygonCenter(unitA.polygon), doorMidpoint),
                    "horizontal")
    IN  [nodes |-> nodes1,
         edges |-> addEdge(edges1, door, unitB.id,
                     getEuclideanDistance(doorMidpoint, getPolygonCenter(unitB.polygon)),
                     "horizontal")]

\* a mutation of ConnectShared: every pair with a shared edge is joined centre
\* to centre
ConnectSharedDirectly(g, unitA, unitB, sharedEdge) ==
    IF ~sharedEdge.found THEN g
    ELSE [g EXCEPT !.edges =
             addEdge(@, unitA.id, unitB.id,
                     getEuclideanDistance(getPolygonCenter(unitA.polygon),
                                          getPolygonCenter(unitB.polygon)),
                     "horizontal")]

\* if (sharedEdge) { ... } for one pair of units of one level
ConnectShared(g, unitA, unitB, sharedEdge) ==
    IF ~sharedEdge.found THEN g
    ELSE IF unitA.type \in transitTypes /\ unitB.type \in transitTypes
    THEN [g EXCEPT !.edges =
             addEdge(@, unitA.id, unitB.id,
                     getEuclideanDistance(getPolygonCenter(unitA.polygon),
                                          getPolygonCenter(unitB.polygon)),
                     "horizontal")]
    ELSE ConnectByDoor(g, unitA, unitB,
                       Pt((sharedEdge.seg[1].x + sharedEdge.seg[2].x) \div 2,
                          (sharedEdge.seg[1].y + sharedEdge.seg[2].y) \div 2),
                       doorNodeId(unitA.id, unitB.id))

\* the body of the i < j loop of STEP 3 for one pair of units
ConnectPair(g, unitA, unitB) ==
    IF unitA.levelId # unitB.levelId THEN g
    ELSE ConnectShared(g, unitA, unitB, findSharedEdge(unitA.polygon, unitB.polygon))

\* STEP 3: the inner loop for (j ...) for one i, from j on
RECURSIVE AdjacencyRowFrom(_, _, _, _)
AdjacencyRowFrom(g, tu, i, j) ==
    IF j > Len(tu) THEN g
    ELSE AdjacencyRowFrom(ConnectPair(g, tu[i], tu[j]), tu, i, j + 1)

\* STEP 3: the loops for (i ...) for (j = i + 1 ...), from the pair (i, j) on.
\* The graph of each row is evaluated (row = row) before the next row is begun:
\* arguments are evaluated on demand, and the chain of pending rows would
\* otherwise grow with the square of the number of units.
RECURSIVE AdjacencyFrom(_, _, _, _)
AdjacencyFrom(g, tu, i, j) ==
    IF i > Len(tu) THEN g
    ELSE LET row == AdjacencyRowFrom(g, tu, i, j)
         IN  IF row = row THEN AdjacencyFrom(row, tu, i + 1, i + 2) ELSE g

AdjacencyPass(g, tu) == AdjacencyFrom(g, tu, 1, 2)

\* data.levels.find(l => l.id === levelId)?.zIndex ?? 0
ZIndexOf(d, levelId) ==
    IF \E k \in 1..Len(d.levels) : d.levels[k].id = levelId
    THEN d.levels[CHOOSE k \in 1..Len(d.levels) :
                     /\ d.levels[k].id = levelId
                     /\ \A m \in 1..(k - 1) : d.levels[m].id # levelId].zIndex
    ELSE 0

\* a mutation of IsVerticalUnit: only the elevators are grouped
IsVerticalElevator(u) ==
    u.type = ELEVATOR /\ u.verticalConnectorId # Undefined

IsVerticalUnit(u) ==
    (u.type = STAIRS \/ u.type = ELEVATOR) /\ u.verticalConnectorId # Undefined

\* the keys of the verticalConnectors Map, in insertion order
RECURSIVE ConnectorIds(_)
ConnectorIds(tu) ==
    IF tu = <<>> THEN <<>>
    ELSE LET front == ConnectorIds(SubSeq(tu, 1, Len(tu) - 1))
             u == tu[Len(tu)]
         IN  IF IsVerticalUnit(u)
                /\ ~\E k \in 1..Len(front) : front[k] = u.verticalConnectorId
             THEN Append(front, u.verticalConnectorId)
             ELSE front

\* the value of the verticalConnectors Map at one key
ConnectorGroup(tu, vc) ==
    LET Member(u) == IsVerticalUnit(u) /\ u.verticalConnectorId = vc
    IN  SelectSeq(tu, Member)

\* a mutation of SortByZIndex: the group is left in the order of the unit list
KeepListOrder(d, units) == units

\* Array.prototype.sort with (a, b) => zIndex(a) - zIndex(b): stable
RECURSIVE SortByZIndex(_, _)
SortByZIndex(d, units) ==
    IF units = <<>> THEN <<>>
    ELSE LET front == SortByZIndex(d, SubSeq(units, 1, Len(units) - 1))
             u == units[Len(units)]
             keep == {k \in 1..Len(front) :
                         ZIndexOf(d, front[k].levelId) <= ZIndexOf(d, u.levelId)}
             n == Cardinality(keep)
         IN  SubSeq(front, 1, n) \o <<u>> \o SubSeq(front, n + 1, Len(front))

\* the loop over consecutive units of one sorted group, from index i on
RECURSIVE LinkConsecutive(_, _, _)
LinkConsecutive(edges, sortedUnits, i) ==
    IF i > Len(sortedUnits) - 1 THEN edges
    ELSE LET unitA == sortedUnits[i]
             unitB == sortedUnits[i + 1]
             weight == getEuclideanDistance(getPolygonCenter(unitA.polygon),
                                            getPolygonCenter(unitB.polygon))
                       + VerticalPenalty
         IN  LinkConsecutive(addEdge(edges, unitA.id, unitB.id, weight, "vertical"),
                             sortedUnits, i + 1)

RECURSIVE VerticalFrom(_, _, _, _, _)
VerticalFrom(edges, d, tu, vcs, k) ==
    IF k > Len(vcs) THEN edges
    ELSE VerticalFrom(
             LinkConsecutive(edges, SortByZIndex(d, ConnectorGroup(tu, vcs[k])), 1),
             d, tu, vcs, k + 1)

\* STEP 4: vertical connections
VerticalPass(g, d, tu) ==
    [g EXCEPT !.edges = VerticalFrom(@, d, tu, ConnectorIds(tu), 1)]

\* a mutation of NearestUnit: candidates of other levels are not skipped
NearestUnitAnyLevel(tu, isolated) ==
    LET isolatedCenter == getPolygonCenter(isolated.polygon)
        Cand == {k \in 1..Len(tu) : tu[k].id # isolated.id}
        Dist(k) == getEuclideanDistance(isolatedCenter, getPolygonCenter(tu[k].polygon))
    IN  IF Cand = {} THEN [found |-> FALSE, unit |-> isolated, dist |-> Infinity]
        ELSE LET best == CHOOSE k \in Cand :
                             \A o \in Cand : Dist(k) < Dist(o) \/ (Dist(k) = Dist(o) /\ k <= o)
             IN  [found |-> TRUE, unit |-> tu[best], dist |-> Dist(best)]

\* the candidate loop of STEP 5: the first candidate of least distance, if any
NearestUnit(tu, isolated) ==
    LET isolatedCenter == getPolygonCenter(isolated.polygon)
        Cand == {k \in 1..Len(tu) :
                    tu[k].id # isolated.id /\ tu[k].levelId = isolated.levelId}
        Dist(k) == getEuclideanDistance(isolatedCenter, getPolygonCenter(tu[k].polygon))
    IN  IF Cand = {} THEN [found |-> FALSE, unit |-> isolated, dist |-> Infinity]
        ELSE LET best == CHOOSE k \in Cand :
                             \A o \in Cand : Dist(k) < Dist(o) \/ (Dist(k) = Dist(o) /\ k <= o)
             IN  [found |-> TRUE, unit |-> tu[best], dist |-> Dist(best)]

RECURSIVE FallbackFrom(_, _, _, _)
FallbackFrom(edges, tu, isolatedUnits, k) ==
    IF k > Len(isolatedUnits) THEN edges
    ELSE LET isolated == isolatedUnits[k]
             nearest == NearestUnit(tu, isolated)
         IN  FallbackFrom(
                 IF nearest.found /\ nearest.dist < ProximityLimit
                 THEN addEdge(edges, isolated.id, nearest.unit.id, nearest.dist, "horizontal")
                 ELSE edges,
                 tu, isolatedUnits, k + 1)

\* STEP 5: fallback proximity connections
FallbackPass(g, tu) ==
    LET NoEdges(u) == Len(EdgesOf(g.edges, u.id)) = 0
        isolatedUnits == SelectSeq(tu, NoEdges)
    IN  [g EXCEPT !.edges = FallbackFrom(@, tu, isolatedUnits, 1)]

\* the graph as it stands after STEP 3 and after STEP 4
GraphAfterAdjacency(d) ==
    AdjacencyPass([nodes |-> CenterNodes(TraversableUnits(d)), edges |-> EmptyEdges],
                  TraversableUnits(d))

GraphAfterVertical(d) == VerticalPass(GraphAfterAdjacency(d), d, TraversableUnits(d))

generateNavigationGraph(d) == FallbackPass(GraphAfterVertical(d), TraversableUnits(d))

-----------------------------------------------------------------------------
(* Campus data given to the hook *)

\* the greatest number of units of a plan whose levels are chosen freely
MaxUnits == 2

Rect(x0, y0, x1, y1) == <<Pt(x0, y0), Pt(x1, y0), Pt(x1, y1), Pt(x0, y1)>>

\* floor plans: the polygon of the unit in each position
\* row: a chain of rooms, each sharing a whole wall with the next
\* tee: two rooms side by side, a long room over both, a tall room beside
\* gap: a room, a room touching it at one corner only, rooms short of it
\* far: three rooms apart, with centres 50 and 49 units from one to the next
\* nested: a room, a room drawn inside it about the same centre, a room beside
Layouts ==
    [row |-> <<Rect(0, 0, 20, 20), Rect(20, 0, 40, 20), Rect(40, 0, 60, 20),
               Rect(60, 0, 80, 20), Rect(80, 0, 100, 20), Rect(100, 0, 120, 20)>>,
     tee |-> <<Rect(0, 0, 20, 20), Rect(20, 0, 40, 20), Rect(0, 20, 40, 40),
               Rect(40, 0, 60, 40), Rect(0, 40, 60, 60), Rect(60, 0, 80, 60)>>,
     gap |-> <<Rect(0, 0, 20, 20), Rect(20, 20, 40, 40), Rect(44, 20, 64, 40),
               Rect(64, 20, 84, 40), Rect(140, 20, 160, 40), Rect(0, 44, 20, 64)>>,
     far |-> <<Rect(0, 0, 20, 20), Rect(50, 0, 70, 20), Rect(99, 0, 119, 20)>>,
     nested |-> <<Rect(0, 0, 20, 20), Rect(5, 5, 15, 15), Rect(20, 0, 40, 20)>>]

LayoutNames == {"row", "tee", "gap"}

UnitTypes == {CORRIDOR, CLASSROOM, STAIRS, ELEVATOR, RESTRICTED}

LevelIds == {"L1", "L2"}

Levels == <<[id |-> "L1", zIndex |-> 0], [id |-> "L2", zIndex |-> 1]>>

\* the optional fields of the unit in each position: absent, false or true
AccessibleAt(k) == <<Undefined, "false", "true">>[((k - 1) % 3) + 1]

ConnectorAt(k) == <<"V1", "V1", "V2", "V2">>[((k - 1) % 4) + 1]

MakeUnit(k, layout, type, levelId) ==
    [id |-> IdOrder[k], type |-> type, levelId |-> levelId,
     polygon |-> Layouts[layout][k], accessible |-> AccessibleAt(k),
     verticalConnectorId |->
         IF type \in {STAIRS, ELEVATOR} THEN ConnectorAt(k) ELSE Undefined]

\* every plan of at most MaxUnits units, each of any type and on any level
PlanSets ==
    {[levels |-> Levels,
      units |-> [k \in 1..q[1] |-> MakeUnit(k, q[2], q[3][k], q[4][k])]] :
        q \in UNION {{n} \X LayoutNames \X [1..n -> UnitTypes] \X [1..n -> LevelIds] :
                        n \in 0..MaxUnits}}

\* one floor of three units, each of any type
SingleFloorSets ==
    {[levels |-> Levels,
      units |-> [k \in 1..3 |-> MakeUnit(k, q[1], q[2][k], "L1")]] :
        q \in LayoutNames \X [1..3 -> UnitTypes]}

\* two floors of two units each; units 1, 2 carry one connector id and
\* units 3, 4 another, and either pair lies on the two floors
TwoFloorSets ==
    {[levels |-> Levels,
      units |-> [k \in 1..4 |-> MakeUnit(k, "tee", q[1][k], q[2][k])]] :
        q \in [1..4 -> {CORRIDOR, CLASSROOM, STAIRS, ELEVATOR}]
              \X {<<"L1", "L2", "L1", "L2">>, <<"L1", "L2", "L2", "L1">>}}

\* one floor of three rooms that share no wall, each of any of three types
SparseSets ==
    {[levels |-> Levels,
      units |-> [k \in 1..3 |-> MakeUnit(k, "far", q[k], "L1")]] :
        q \in [1..3 -> {CORRIDOR, CLASSROOM, RESTRICTED}]}

\* one floor with a room inside a room: the inner room shares no wall, and
\* its centre is the centre of the outer room
NestedSets ==
    {[levels |-> Levels,
      units |-> [k \in 1..3 |-> MakeUnit(k, "nested", q[k], "L1")]] :
        q \in [1..3 -> {CORRIDOR, CLASSROOM}]}

ShaftLevels ==
    <<[id |-> "L1", zIndex |-> 0], [id |-> "L2", zIndex |-> 1],
      [id |-> "L3", zIndex |-> 2]>>

\* a unit of a shaft plan: any unit may carry a verticalConnectorId
MakeShaftUnit(k, type, levelId, connectorId) ==
    [id |-> IdOrder[k], type |-> type, levelId |-> levelId,
     polygon |-> Layouts["row"][k], accessible |-> AccessibleAt(k),
     verticalConnectorId |-> connectorId]

\* three units over three floors: the floors in and out of list order, two
\* units on one floor, a level id (L9) that data.levels does not hold; one
\* connector id for all three units, or another or none for the third
ShaftSets ==
    {[levels |-> ShaftLevels,
      units |-> [k \in 1..3 |-> MakeShaftUnit(k, q[1][k], q[2][k], q[3][k])]] :
        q \in {<<STAIRS, STAIRS, STAIRS>>, <<STAIRS, ELEVATOR, STAIRS>>,
               <<ELEVATOR, ELEVATOR, ELEVATOR>>, <<STAIRS, CORRIDOR, ELEVATOR>>}
              \X {<<"L1", "L2", "L3">>, <<"L3", "L1", "L2">>, <<"L3", "L2", "L1">>,
                  <<"L2", "L9", "L3">>, <<"L1", "L1", "L2">>}
              \X {<<"V1", "V1", "V1">>, <<"V1", "V1", "V2">>,
                  <<"V1", "V1", Undefined>>}}

DataSets == PlanSets \cup SingleFloorSets \cup TwoFloorSets \cup SparseSets
                \cup ShaftSets \cup NestedSets

\* a unit of the bundled campus data: no accessible field
FixtureUnit(id, type, levelId, connectorId, polygon) ==
    [id |-> id, type |-> type, levelId |-> levelId, polygon |-> polygon,
     accessible |-> Undefined, verticalConnectorId |-> connectorId]

\* data/campusData.ts: the levels and units of the bundled two-floor building.
\* The coordinates are the numbers written there, taken as units of the model:
\* against them the vertical penalty and the proximity limit are those of a
\* plan drawn 10^4 times larger.  No unit of this data is left without an edge,
\* and a route between the two floors pays the penalty once whichever shaft it
\* takes, so the routes are those of the file's own scale.
campusData ==
    [levels |-> Levels,
     units |->
       <<FixtureUnit("U100", ENTRANCE, "L1", Undefined, Rect(20, 350, 100, 450)),
         FixtureUnit("U101", CORRIDOR, "L1", Undefined, Rect(100, 200, 450, 250)),
         FixtureUnit("U102", CORRIDOR, "L1", Undefined, Rect(100, 550, 450, 600)),
         FixtureUnit("U103", CORRIDOR, "L1", Undefined, Rect(100, 250, 150, 550)),
         FixtureUnit("U104", CLASSROOM, "L1", Undefined, Rect(150, 250, 300, 400)),
         FixtureUnit("U105", OFFICE, "L1", Undefined, Rect(300, 250, 450, 400)),
         FixtureUnit("U106", CLASSROOM, "L1", Undefined, Rect(150, 400, 300, 550)),
         FixtureUnit("U107", RESTRICTED, "L1", Undefined, Rect(300, 400, 450, 550)),
         FixtureUnit("U108", STAIRS, "L1", "V1", Rect(450, 200, 520, 250)),
         FixtureUnit("U109", ELEVATOR, "L1", "V2", Rect(450, 550, 520, 600)),
         FixtureUnit("U201", CORRIDOR, "L2", Undefined, Rect(700, 200, 1050, 250)),
         FixtureUnit("U202", CORRIDOR, "L2", Undefined, Rect(700, 550, 1050, 600)),
         FixtureUnit("U203", CORRIDOR, "L2", Undefined, Rect(700, 250, 750, 550)),
         FixtureUnit("U204", CLASSROOM, "L2", Undefined, Rect(750, 250, 900, 400)),
         FixtureUnit("U205", OFFICE, "L2", Undefined, Rect(900, 250, 1050, 400)),
         FixtureUnit("U206", CLASSROOM, "L2", Undefined, Rect(750, 400, 900, 550)),
         FixtureUnit("U207", OFFICE, "L2", Undefined, Rect(900, 400, 1050, 550)),
         FixtureUnit("U208", STAIRS, "L2", "V1", Rect(1050, 200, 1120, 250)),
         FixtureUnit("U209", ELEVATOR, "L2", "V2", Rect(1050, 550, 1120, 600))>>]

UnitIds(d) == {d.units[k].id : k \in 1..Len(d.units)}

NodeIds(g) == {g.nodes[k].id : k \in 1..Len(g.nodes)}

\* the ids a caller may pass: every unit, every node, the empty string, an unknown id
QueryIds(d, g) == UnitIds(d) \cup NodeIds(g) \cup {"", "U0"}

-----------------------------------------------------------------------------
(* The useGraph hook: hooks/useGraph.ts *)

\* nodeMap.get(id): the last node of that id
NodeOf(g, id) ==
    g.nodes[CHOOSE k \in 1..Len(g.nodes) :
                /\ g.nodes[k].id = id
                /\ \A m \in (k + 1)..Len(g.nodes) : g.nodes[m].id # id]

\* a mutation of InvalidEndpoints: only the first guard is kept
InvalidEndpointsEmptyOnly(g, s, e) == s = "" \/ e = ""

\* the two guards at the head of getPath
InvalidEndpoints(g, s, e) ==
    s = "" \/ e = "" \/ s \notin NodeIds(g) \/ e \notin NodeIds(g)

\* distances, previous and queue after the forEach over the nodes
SearchInit(g, s) ==
    [distances |-> [id \in NodeIds(g) |-> IF id = s THEN 0 ELSE Infinity],
     previous |-> [id \in NodeIds(g) |-> Null],
     queue |-> NodeIds(g)]

\* a mutation of FilterSkips: only the node the edge leaves is looked at
FilterSkipsFromOnly(g, f, edge) ==
    /\ f = ELEVATOR_ONLY
    /\ edge.type = "vertical"
    /\ edge.from \in NodeIds(g) /\ NodeOf(g, edge.from).unitType = STAIRS

\* a mutation of FilterSkips: the edge is skipped only between two STAIRS
FilterSkipsBothStairs(g, f, edge) ==
    /\ f = ELEVATOR_ONLY
    /\ edge.type = "vertical"
    /\ edge.from \in NodeIds(g) /\ NodeOf(g, edge.from).unitType = STAIRS
    /\ edge.to \in NodeIds(g) /\ NodeOf(g, edge.to).unitType = STAIRS

\* a mutation of FilterSkips: the test of the filter is inverted
FilterSkipsUnlessElevatorOnly(g, f, edge) ==
    /\ f # ELEVATOR_ONLY
    /\ edge.type = "vertical"
    /\ \/ (edge.from \in NodeIds(g) /\ NodeOf(g, edge.from).unitType = STAIRS)
       \/ (edge.to \in NodeIds(g) /\ NodeOf(g, edge.to).unitType = STAIRS)

\* the "Filter logic" of the relaxation loop: TRUE when the edge is skipped
FilterSkips(g, f, edge) ==
    /\ f = ELEVATOR_ONLY
    /\ edge.type = "vertical"
    /\ \/ (edge.from \in NodeIds(g) /\ NodeOf(g, edge.from).unitType = STAIRS)
       \/ (edge.to \in NodeIds(g) /\ NodeOf(g, edge.to).unitType = STAIRS)

\* the for (const id of queue) scan: the first queued id of least distance, if finite
MinOfQueue(g, dist, q) ==
    LET Idx == {k \in 1..Len(g.nodes) : g.nodes[k].id \in q /\ dist[g.nodes[k].id] < Infinity}
    IN  IF Idx = {} THEN Null
        ELSE g.nodes[CHOOSE k \in Idx :
                 \A o \in Idx :
                     \/ dist[g.nodes[k].id] < dist[g.nodes[o].id]
                     \/ (dist[g.nodes[k].id] = dist[g.nodes[o].id] /\ k <= o)].id

\* a mutation of SearchExits: the loop is not left on selecting the end node
SearchExitsOnExhaustion(g, e, st) ==
    st.queue = {} \/ MinOfQueue(g, st.distances, st.queue) = Null

\* the loop condition and the two breaks: TRUE when the while loop is left
SearchExits(g, e, st) ==
    st.queue = {} \/ MinOfQueue(g, st.distances, st.queue) \in {Null, e}

\* a mutation of Relax: the tentative distance is stored without comparing
RECURSIVE RelaxOverwrite(_, _, _, _, _, _)
RelaxOverwrite(g, f, u, neighbors, i, st) ==
    IF i > Len(neighbors) THEN st
    ELSE LET edge == neighbors[i]
             alt == st.distances[u] + edge.weight
         IN  IF edge.to \notin st.queue \/ FilterSkips(g, f, edge)
             THEN RelaxOverwrite(g, f, u, neighbors, i + 1, st)
             ELSE RelaxOverwrite(g, f, u, neighbors, i + 1,
                      [st EXCEPT !.distances[edge.to] = alt, !.previous[edge.to] = u])

\* a mutation of Relax: the shorter distance is stored, the predecessor is not
RECURSIVE RelaxDistanceOnly(_, _, _, _, _, _)
RelaxDistanceOnly(g, f, u, neighbors, i, st) ==
    IF i > Len(neighbors) THEN st
    ELSE LET edge == neighbors[i]
             alt == st.distances[u] + edge.weight
         IN  IF edge.to \notin st.queue \/ FilterSkips(g, f, edge)
             THEN RelaxDistanceOnly(g, f, u, neighbors, i + 1, st)
             ELSE IF alt < st.distances[edge.to]
             THEN RelaxDistanceOnly(g, f, u, neighbors, i + 1,
                      [st EXCEPT !.distances[edge.to] = alt])
             ELSE RelaxDistanceOnly(g, f, u, neighbors, i + 1, st)

\* the for (const edge of neighbors) loop, from edge i on
RECURSIVE Relax(_, _, _, _, _, _)
Relax(g, f, u, neighbors, i, st) ==
    IF i > Len(neighbors) THEN st
    ELSE LET edge == neighbors[i]
             alt == st.distances[u] + edge.weight
         IN  IF edge.to \notin st.queue THEN Relax(g, f, u, neighbors, i + 1, st)
             ELSE IF FilterSkips(g, f, edge) THEN Relax(g, f, u, neighbors, i + 1, st)
             ELSE IF alt < st.distances[edge.to]
             THEN Relax(g, f, u, neighbors, i + 1,
                        [st EXCEPT !.distances[edge.to] = alt, !.previous[edge.to] = u])
             ELSE Relax(g, f, u, neighbors, i + 1, st)

\* one iteration of the while loop that does not leave it
SearchNext(g, f, st) ==
    LET u == MinOfQueue(g, st.distances, st.queue)
    IN  Relax(g, f, u, EdgesOf(g.edges, u), 1, [st EXCEPT !.queue = @ \ {u}])

\* previous.get(id) || null
PreviousOf(prev, id) == IF id \in DOMAIN prev THEN prev[id] ELSE Null

\* a mutation of Unwind: the loop runs while the current node has a predecessor
RECURSIVE UnwindWhilePrevious(_, _, _)
UnwindWhilePrevious(prev, current, path) ==
    IF current = Null \/ current = "" \/ PreviousOf(prev, current) = Null THEN path
    ELSE UnwindWhilePrevious(prev, PreviousOf(prev, current), <<current>> \o path)

\* the while (current) loop that rebuilds the path from endId
RECURSIVE Unwind(_, _, _)
Unwind(prev, current, path) ==
    IF current = Null \/ current = "" THEN path
    ELSE Unwind(prev, PreviousOf(prev, current), <<current>> \o path)

NullResult == [null |-> TRUE, path |-> <<>>]

\* a mutation of PathFrom: the unreachable end is not looked for
PathFromUnchecked(e, st) ==
    LET path == Unwind(st.previous, e, <<>>)
    IN  IF Len(path) > 0 THEN [null |-> FALSE, path |-> path] ELSE NullResult

\* "Reconstruct path" and the return value
PathFrom(e, st) ==
    IF e \in DOMAIN st.distances /\ st.distances[e] = Infinity THEN NullResult
    ELSE LET path == Unwind(st.previous, e, <<>>)
         IN  IF Len(path) > 0 THEN [null |-> FALSE, path |-> path] ELSE NullResult

RECURSIVE RunSearch(_, _, _, _)
RunSearch(g, e, f, st) ==
    IF SearchExits(g, e, st) THEN st ELSE RunSearch(g, e, f, SearchNext(g, f, st))

\* getPath as one call
getPath(g, s, e, f) ==
    IF InvalidEndpoints(g, s, e) THEN NullResult
    ELSE PathFrom(e, RunSearch(g, e, f, SearchInit(g, s)))

\* a mutation of getPathWaypoints: the door waypoints are left out
getPathWaypointsOfCenters(g, path) ==
    LET Known(id) == id \in NodeIds(g) /\ NodeOf(g, id).type = "center"
        kept == SelectSeq(path, Known)
    IN  [k \in 1..Len(kept) |->
            [point |-> NodeOf(g, kept[k]).point, levelId |-> NodeOf(g, kept[k]).levelId]]

\* path.map(id => nodeMap.get(id) ...).filter(wp => !!wp)
getPathWaypoints(g, path) ==
    LET Known(id) == id \in NodeIds(g)
        kept == SelectSeq(path, Known)
    IN  [k \in 1..Len(kept) |->
            [point |-> NodeOf(g, kept[k]).point, levelId |-> NodeOf(g, kept[k]).levelId]]

\* a mutation of PathDistanceFrom: every consecutive pair is measured
RECURSIVE PathDistanceOfAllPairs(_, _, _)
PathDistanceOfAllPairs(wps, i, distance) ==
    IF i > Len(wps) - 1 THEN distance
    ELSE PathDistanceOfAllPairs(wps, i + 1,
             distance + getHaversineDistance(wps[i].point, wps[i + 1].point))

\* the for loop of calculatePathDistance, from index i on
RECURSIVE PathDistanceFrom(_, _, _)
PathDistanceFrom(wps, i, distance) ==
    IF i > Len(wps) - 1 THEN distance
    ELSE PathDistanceFrom(wps, i + 1,
             IF wps[i].levelId = wps[i + 1].levelId
             THEN distance + getHaversineDistance(wps[i].point, wps[i + 1].point)
             ELSE distance)

calculatePathDistance(wps) == PathDistanceFrom(wps, 1, 0)

\* the graph a later call would return if nodes and edges outlived the call
\* before it: a mutation of useMemoNavGraph
useMemoNavGraphCarrying(prev, d) ==
    FallbackPass(
        VerticalPass(
            AdjacencyPass([nodes |-> prev.nodes \o CenterNodes(TraversableUnits(d)),
                           edges |-> prev.edges],
                          TraversableUnits(d)),
            d, TraversableUnits(d)),
        TraversableUnits(d))

\* useMemo(() => generateNavigationGraph(data), [data]) when the hook runs
\* again: prev is the graph of the call before, which the new call never sees
\* (nodes and edges are locals of generateNavigationGraph)
useMemoNavGraph(prev, d) == generateNavigationGraph(d)

\* a mutation of dataAfterGenerate: the sort of STEP 4 is applied to the
\* units array of the argument itself
dataSortedInPlace(d) == [d EXCEPT !.units = SortByZIndex(d, d.units)]

\* the CampusData argument as generateNavigationGraph leaves it: filter() and
\* the groups of the verticalConnectors Map are arrays of their own, so the
\* sort of STEP 4 moves no element of data.units or data.levels
dataAfterGenerate(d) == d

NoMap == [k \in {} |-> 0]

\* no waypoint list and no distance: null
NoWaypoints == [null |-> TRUE, list |-> <<>>]

NoDistance == [null |-> TRUE, value |-> 0]

-----------------------------------------------------------------------------
(* The dataset store: services/dbService.ts *)

\* the greatest id the datasets table hands out in a run of the model
MaxDatasetId == 3

\* the tables after createTables: no dataset; seq is the AUTOINCREMENT counter
EmptyDb == [seq |-> 0, datasets |-> <<>>, levels |-> <<>>, units |-> <<>>]

\* { sites: [], facilities: [], levels: [], units: [], details: [] }
EmptyCampusData == [levels |-> <<>>, units |-> <<>>]

\* UPDATE datasets SET isActive = 0
Deactivated(rows) == [k \in 1..Len(rows) |-> [rows[k] EXCEPT !.isActive = FALSE]]

\* UPDATE datasets SET isActive = 1 WHERE id = ...
Activated(rows, id) ==
    [k \in 1..Len(rows) |->
        IF rows[k].id = id THEN [rows[k] EXCEPT !.isActive = TRUE] ELSE rows[k]]

\* DELETE FROM ... WHERE datasetId = ...
WithoutDataset(table, id) ==
    LET Kept(row) == row.datasetId # id
    IN  SelectSeq(table, Kept)

\* SELECT ... WHERE datasetId = ..., in the order of insertion
OfDataset(table, id) ==
    LET Own(row) == row.datasetId = id
    IN  SelectSeq(table, Own)

\* the row written for a level
levelRow(l, datasetId) == [datasetId |-> datasetId, id |-> l.id, zIndex |-> l.zIndex]

\* the row written for a unit: verticalConnectorId || null, accessible ? 1 : 0
unitRow(u, datasetId) ==
    [datasetId |-> datasetId, id |-> u.id, type |-> u.type, levelId |-> u.levelId,
     polygon |-> u.polygon,
     verticalConnectorId |->
         IF u.verticalConnectorId = Undefined THEN Null ELSE u.verticalConnectorId,
     accessible |-> IF u.accessible = "true" THEN 1 ELSE 0]

\* the level read from a row
levelOfRow(row) == [id |-> row.id, zIndex |-> row.zIndex]

\* the unit read from a row: accessible !== 0; a NULL verticalConnectorId is
\* read as null, which every test of the field takes as it takes undefined
unitOfRow(row) ==
    [id |-> row.id, type |-> row.type, levelId |-> row.levelId,
     polygon |-> row.polygon,
     accessible |-> IF row.accessible # 0 THEN "true" ELSE "false",
     verticalConnectorId |->
         IF row.verticalConnectorId = Null THEN Undefined ELSE row.verticalConnectorId]

\* PRIMARY KEY (id, datasetId): the table holds a row of the same key
HasKey(table, row) ==
    \E k \in 1..Len(table) : table[k].id = row.id /\ table[k].datasetId = row.datasetId

\* forEach(row => insert.run(row)) from place k on: the table it leaves, and
\* whether a statement threw on a key the table already holds
RECURSIVE InsertRows(_, _, _)
InsertRows(table, rows, k) ==
    IF k > Len(rows) THEN [table |-> table, threw |-> FALSE]
    ELSE IF HasKey(table, rows[k]) THEN [table |-> table, threw |-> TRUE]
    ELSE InsertRows(Append(table, rows[k]), rows, k + 1)

\* getCampusDataForId
getCampusDataForId(d, id) ==
    LET levels == OfDataset(d.levels, id)
        units == OfDataset(d.units, id)
    IN  [levels |-> [k \in 1..Len(levels) |-> levelOfRow(levels[k])],
         units |-> [k \in 1..Len(units) |-> unitOfRow(units[k])]]

\* SELECT id FROM datasets WHERE isActive = 1
ActiveRows(d) ==
    LET Active(row) == row.isActive
    IN  SelectSeq(d.datasets, Active)

\* getActiveCampusData: the data of the first active dataset, or empty data
getActiveCampusData(d) ==
    IF ActiveRows(d) = <<>> THEN EmptyCampusData
    ELSE getCampusDataForId(d, ActiveRows(d)[1].id)

\* getDatasets: ORDER BY createdAt DESC, the latest row first
getDatasets(d) == [k \in 1..Len(d.datasets) |-> d.datasets[Len(d.datasets) + 1 - k]]

\* setActiveDataset
setActiveDataset(d, id) == [d EXCEPT !.datasets = Activated(Deactivated(@), id)]

\* addDataset, up to BEGIN TRANSACTION: the other rows are made inactive and
\* the row of the new dataset is inserted
DatasetListed(d, isActive) ==
    [d EXCEPT !.seq = @ + 1,
              !.datasets = (IF isActive THEN Deactivated(@) ELSE @)
                               \o <<[id |-> d.seq + 1, isActive |-> isActive]>>]

\* addDataset, the transaction: the rows of the levels, then of the units;
\* on a throw ROLLBACK restores the tables written since BEGIN TRANSACTION
RowsInserted(d, cd, id) ==
    LET lv == InsertRows(d.levels,
                         [k \in 1..Len(cd.levels) |-> levelRow(cd.levels[k], id)], 1)
        un == InsertRows(d.units,
                         [k \in 1..Len(cd.units) |-> unitRow(cd.units[k], id)], 1)
    IN  IF lv.threw \/ un.threw THEN [db |-> d, threw |-> TRUE]
        ELSE [db |-> [d EXCEPT !.levels = lv.table, !.units = un.table],
              threw |-> FALSE]

\* addDataset: the store it leaves, and whether it threw
addDataset(d, cd, isActive) == RowsInserted(DatasetListed(d, isActive), cd, d.seq + 1)

\* deleteDataset: it throws on the last dataset; deleting the active dataset
\* makes the first other one of getDatasets active
deleteDataset(d, id) ==
    LET all == getDatasets(d)
        Other(row) == row.id # id
        others == SelectSeq(all, Other)
        isActive == \E k \in 1..Len(all) : all[k].id = id /\ all[k].isActive
        rows == IF isActive /\ others # <<>>
                THEN Activated(d.datasets, others[1].id) ELSE d.datasets
    IN  IF Len(all) <= 1 THEN [db |-> d, threw |-> TRUE]
        ELSE [db |-> [d EXCEPT !.datasets = SelectSeq(rows, Other),
                               !.levels = WithoutDataset(@, id),
                               !.units = WithoutDataset(@, id)],
              threw |-> FALSE]

-----------------------------------------------------------------------------
(* The pages: App.tsx and pages/MapPage.tsx *)

\* pathInstructions: the text of a kind about a path; '' is the empty kind
Text(kind, p) == [kind |-> kind, path |-> p]

NoText == Text("", <<>>)

\* the texts generateInstructions resolves to: the steps the model wrote, or
\* the notice that stands for them when Ollama is not running or fails
ReplyKinds == {"steps", "notice"}

\* the state of the App and of MapPage while the hook alone is exercised
AppAtRest ==
    /\ db = EmptyDb
    /\ datasets = <<>>
    /\ currentPage = "map"
    /\ startUnit = Null
    /\ endUnit = Null
    /\ pagePath = NullResult
    /\ pathInstructions = NoText
    /\ isGeneratingInstructions = FALSE
    /\ requests = {}

Init ==
    /\ data \in DataSets
    /\ navGraph = generateNavigationGraph(data)
    /\ pc = "idle"
    /\ startId = ""
    /\ endId = ""
    /\ filter = NONE
    /\ distances = NoMap
    /\ previous = NoMap
    /\ queue = {}
    /\ result = NullResult
    /\ waypoints = NoWaypoints
    /\ pathDistance = NoDistance
    /\ AppAtRest

\* the hook runs again on the same data: the memo of the graph is recomputed
UseMemoNavGraph ==
    /\ pc = "idle"
    /\ navGraph' = useMemoNavGraph(navGraph, data)
    /\ data' = dataAfterGenerate(data)
    /\ pc' = "memo"
    /\ UNCHANGED <<startId, endId, filter, distances, previous, queue, result,
                   waypoints, pathDistance>>
    /\ UNCHANGED appVars

\* the hook returns its functions
UseGraphReturn ==
    /\ pc = "memo"
    /\ pc' = "idle"
    /\ UNCHANGED <<data, navGraph, startId, endId, filter, distances, previous, queue,
                   result, waypoints, pathDistance>>
    /\ UNCHANGED appVars

\* getPath is called: the two guards, then the initialisation of the search
GetPathCall(s, e, f) ==
    /\ pc = "idle"
    /\ startId' = s
    /\ endId' = e
    /\ filter' = f
    /\ IF InvalidEndpoints(navGraph, s, e)
       THEN /\ pc' = "done"
            /\ result' = NullResult
            /\ UNCHANGED <<distances, previous, queue>>
       ELSE /\ pc' = "search"
            /\ distances' = SearchInit(navGraph, s).distances
            /\ previous' = SearchInit(navGraph, s).previous
            /\ queue' = SearchInit(navGraph, s).queue
            /\ UNCHANGED result
    /\ UNCHANGED <<data, navGraph, waypoints, pathDistance>>
    /\ UNCHANGED appVars

SearchState == [distances |-> distances, previous |-> previous, queue |-> queue]

\* one iteration of while (queue.size > 0)
SearchStep ==
    /\ pc = "search"
    /\ IF SearchExits(navGraph, endId, SearchState)
       THEN /\ pc' = "reconstruct"
            /\ UNCHANGED <<distances, previous, queue>>
       ELSE /\ pc' = "search"
            /\ distances' = SearchNext(navGraph, filter, SearchState).distances
            /\ previous' = SearchNext(navGraph, filter, SearchState).previous
            /\ queue' = SearchNext(navGraph, filter, SearchState).queue
    /\ UNCHANGED <<data, navGraph, startId, endId, filter, result, waypoints,
                   pathDistance>>
    /\ UNCHANGED appVars

\* the path is rebuilt and returned
Reconstruct ==
    /\ pc = "reconstruct"
    /\ result' = PathFrom(endId, SearchState)
    /\ pc' = "done"
    /\ UNCHANGED <<data, navGraph, startId, endId, filter, distances, previous, queue,
                   waypoints, pathDistance>>
    /\ UNCHANGED appVars

\* the caller passes a returned path to getPathWaypoints
GetPathWaypointsCall ==
    /\ pc = "done"
    /\ ~result.null
    /\ waypoints' = [null |-> FALSE, list |-> getPathWaypoints(navGraph, result.path)]
    /\ pc' = "waypoints"
    /\ UNCHANGED <<data, navGraph, startId, endId, filter, distances, previous, queue,
                   result, pathDistance>>
    /\ UNCHANGED appVars

\* the caller passes the waypoints to calculatePathDistance
CalculatePathDistanceCall ==
    /\ pc = "waypoints"
    /\ pathDistance' = [null |-> FALSE, value |-> calculatePathDistance(waypoints.list)]
    /\ pc' = "measured"
    /\ UNCHANGED <<data, navGraph, startId, endId, filter, distances, previous, queue,
                   result, waypoints>>
    /\ UNCHANGED appVars

\* the caller has taken the results; the locals of the calls are gone
Return ==
    /\ \/ pc = "done" /\ result.null
       \/ pc = "measured"
    /\ pc' = "idle"
    /\ startId' = ""
    /\ endId' = ""
    /\ filter' = NONE
    /\ distances' = NoMap
    /\ previous' = NoMap
    /\ queue' = {}
    /\ result' = NullResult
    /\ waypoints' = NoWaypoints
    /\ pathDistance' = NoDistance
    /\ UNCHANGED <<data, navGraph>>
    /\ UNCHANGED appVars

Next ==
    \/ \E s \in QueryIds(data, navGraph), e \in QueryIds(data, navGraph),
          f \in AccessibilityFilter : GetPathCall(s, e, f)
    \/ SearchStep
    \/ Reconstruct
    \/ GetPathWaypointsCall
    \/ CalculatePathDistanceCall
    \/ Return
    \/ UseMemoNavGraph
    \/ UseGraphReturn

Spec == Init /\ [][Next]_vars

\* the hook on the bundled campus data
FixtureInit ==
    /\ data = campusData
    /\ navGraph = generateNavigationGraph(data)
    /\ pc = "idle"
    /\ startId = ""
    /\ endId = ""
    /\ filter = NONE
    /\ distances = NoMap
    /\ previous = NoMap
    /\ queue = {}
    /\ result = NullResult
    /\ waypoints = NoWaypoints
    /\ pathDistance = NoDistance
    /\ AppAtRest

FixtureSpec == FixtureInit /\ [][Next]_vars

\* getPath runs to completion once called: the while loop is a synchronous
\* loop of one JavaScript task, so an iteration that can run does run
LiveSpec == Init /\ [][Next]_vars /\ WF_vars(SearchStep)

-----------------------------------------------------------------------------
(* The App, its admin page and its map page *)

\* the state of a getPath call, which no handler of the pages holds open
hookVars == <<pc, startId, endId, distances, previous, queue, result>>

\* levels listed top floor first, none of them with zIndex 0
UpperLevels == <<[id |-> "L2", zIndex |-> 2], [id |-> "L1", zIndex |-> 1]>>

\* the files an administrator uploads, in this order: a floor of two rooms on
\* a corridor; two floors, a room on each, joined by stairs
Uploads ==
    <<[levels |-> Levels,
       units |-> <<MakeUnit(1, "row", CLASSROOM, "L1"), MakeUnit(2, "row", CORRIDOR, "L1"),
                   MakeUnit(3, "row", CLASSROOM, "L1")>>],
      [levels |-> UpperLevels,
       units |-> <<MakeShaftUnit(3, CLASSROOM, "L1", Undefined),
                   MakeShaftUnit(4, STAIRS, "L1", "V1"),
                   MakeShaftUnit(5, STAIRS, "L2", "V1"),
                   MakeShaftUnit(6, OFFICE, "L2", Undefined)>>]>>

\* a file that lists one unit id twice
DuplicateIdUpload ==
    [levels |-> Levels,
     units |-> <<MakeUnit(1, "row", CLASSROOM, "L1"), MakeUnit(1, "row", CLASSROOM, "L1")>>]

\* the files chosen from when the store has handed out n dataset ids: the
\* next file of Uploads, or the last again, and the file of the repeated id
UploadsAt(n) ==
    {Uploads[IF n < Len(Uploads) THEN n + 1 ELSE Len(Uploads)], DuplicateIdUpload}

\* Controls: the units offered as start and end
selectableUnits(d) ==
    {d.units[k].id : k \in {m \in 1..Len(d.units) :
        d.units[m].type \in {CLASSROOM, OFFICE, ENTRANCE, RESTAURANT}}}

\* levels.sort((a, b) => a.zIndex - b.zIndex): a stable sort of the array
RECURSIVE sortLevels(_)
sortLevels(levels) ==
    IF levels = <<>> THEN <<>>
    ELSE LET front == sortLevels(SubSeq(levels, 1, Len(levels) - 1))
             l == levels[Len(levels)]
             keep == Cardinality({k \in 1..Len(front) : front[k].zIndex <= l.zIndex})
         IN  SubSeq(front, 1, keep) \o <<l>> \o SubSeq(front, keep + 1, Len(front))

\* a mutation of MapPageState: the page keeps the state it had
MapPageStateKept ==
    UNCHANGED <<startUnit, endUnit, filter, pagePath, pathInstructions,
                isGeneratingInstructions, pathDistance, waypoints>>

\* useState: the state of a MapPage that mounts; its effect on campusData
\* calls handleClearPath, which sets the same values
MapPageState ==
    /\ startUnit' = Null
    /\ endUnit' = Null
    /\ filter' = NONE
    /\ pagePath' = NullResult
    /\ pathInstructions' = NoText
    /\ isGeneratingInstructions' = FALSE
    /\ pathDistance' = NoDistance
    /\ waypoints' = NoWaypoints

\* MapPage mounts on campus data cd: useGraph builds the graph, and Controls
\* sorts the levels array of the data where it lies
MapPageMounts(cd) ==
    /\ MapPageState
    /\ navGraph' = generateNavigationGraph(cd)
    /\ data' = [cd EXCEPT !.levels = sortLevels(@)]

\* MapPage unmounts: a request it has sent belongs to no page from now on,
\* and the path it was sent for is of no account
Unmounted(rs) == {[live |-> FALSE, path |-> <<>>] : r \in rs}

\* App after construction, dbService.init on an empty IndexedDB, loadData and
\* a login: no dataset, empty campus data, the map page mounted
AppInit ==
    /\ db = EmptyDb
    /\ datasets = getDatasets(db)
    /\ data = getActiveCampusData(db)
    /\ navGraph = generateNavigationGraph(data)
    /\ currentPage = "map"
    /\ startUnit = Null
    /\ endUnit = Null
    /\ filter = NONE
    /\ pagePath = NullResult
    /\ pathInstructions = NoText
    /\ isGeneratingInstructions = FALSE
    /\ pathDistance = NoDistance
    /\ waypoints = NoWaypoints
    /\ requests = {}
    /\ pc = "idle"
    /\ startId = ""
    /\ endId = ""
    /\ distances = NoMap
    /\ previous = NoMap
    /\ queue = {}
    /\ result = NullResult

\* Controls: a start location is chosen
SetStartUnit(u) ==
    /\ currentPage = "map"
    /\ startUnit' = u
    /\ UNCHANGED <<data, navGraph, filter, waypoints, pathDistance, db, datasets,
                   currentPage, endUnit, pagePath, pathInstructions,
                   isGeneratingInstructions, requests>>
    /\ UNCHANGED hookVars

\* Controls: a destination is chosen
SetEndUnit(u) ==
    /\ currentPage = "map"
    /\ endUnit' = u
    /\ UNCHANGED <<data, navGraph, filter, waypoints, pathDistance, db, datasets,
                   currentPage, startUnit, pagePath, pathInstructions,
                   isGeneratingInstructions, requests>>
    /\ UNCHANGED hookVars

\* Controls: an accessibility option is chosen
SetFilter(f) ==
    /\ currentPage = "map"
    /\ filter' = f
    /\ UNCHANGED <<data, navGraph, waypoints, pathDistance, db, datasets,
                   currentPage, startUnit, endUnit, pagePath, pathInstructions,
                   isGeneratingInstructions, requests>>
    /\ UNCHANGED hookVars

\* handleFindPath with the path getPath returned, up to its await: the Find
\* Path button is disabled without a start, without an end and while
\* instructions are generated
FindPathWith(newPath) ==
    /\ currentPage = "map"
    /\ startUnit # Null /\ endUnit # Null
    /\ ~isGeneratingInstructions
    /\ pagePath' = newPath
    /\ IF ~newPath.null
       THEN /\ pathInstructions' = NoText
            /\ waypoints' = [null |-> FALSE,
                             list |-> getPathWaypoints(navGraph, newPath.path)]
            /\ pathDistance' = [null |-> FALSE, value |-> calculatePathDistance(waypoints'.list)]
            /\ isGeneratingInstructions' = TRUE
            /\ requests' = requests \cup {[live |-> TRUE, path |-> newPath.path]}
       ELSE /\ waypoints' = NoWaypoints
            /\ pathDistance' = NoDistance
            /\ pathInstructions' = Text("none", <<>>)
            /\ isGeneratingInstructions' = FALSE
            /\ UNCHANGED requests
    /\ UNCHANGED <<data, navGraph, filter, db, datasets, currentPage, startUnit, endUnit>>
    /\ UNCHANGED hookVars

handleFindPath == FindPathWith(getPath(navGraph, startUnit, endUnit, filter))

\* handleFindPath after its await: generateInstructions has resolved to a
\* text of some kind about the path it was given.  The setters of a page that
\* has unmounted change nothing
InstructionsResolved(r, kind) ==
    /\ r \in requests
    /\ requests' = requests \ {r}
    /\ IF r.live
       THEN /\ pathInstructions' = Text(kind, r.path)
            /\ isGeneratingInstructions' = FALSE
       ELSE UNCHANGED <<pathInstructions, isGeneratingInstructions>>
    /\ UNCHANGED <<data, navGraph, filter, waypoints, pathDistance, db, datasets,
                   currentPage, startUnit, endUnit, pagePath>>
    /\ UNCHANGED hookVars

\* the Clear button
handleClearPath ==
    /\ currentPage = "map"
    /\ startUnit' = Null
    /\ endUnit' = Null
    /\ pagePath' = NullResult
    /\ waypoints' = NoWaypoints
    /\ pathInstructions' = NoText
    /\ pathDistance' = NoDistance
    /\ UNCHANGED <<data, navGraph, filter, db, datasets, currentPage,
                   isGeneratingInstructions, requests>>
    /\ UNCHANGED hookVars

\* Navigation: the other page is shown; MapPage unmounts or mounts
setCurrentPage(page) ==
    /\ page # currentPage
    /\ currentPage' = page
    /\ IF page = "map"
       THEN /\ MapPageMounts(data)
            /\ UNCHANGED requests
       ELSE /\ requests' = Unmounted(requests)
            /\ UNCHANGED <<data, navGraph, filter, waypoints, pathDistance, startUnit,
                           endUnit, pagePath, pathInstructions,
                           isGeneratingInstructions>>
    /\ UNCHANGED <<db, datasets>>
    /\ UNCHANGED hookVars

\* handleDataUpload with what addDataset left: on a throw the alert alone; on
\* success loadData, then the map page on the data loaded
DataUploadWith(added) ==
    /\ currentPage = "admin"
    /\ db.seq < MaxDatasetId
    /\ db' = added.db
    /\ IF added.threw
       THEN UNCHANGED <<data, navGraph, filter, waypoints, pathDistance, datasets,
                        currentPage, startUnit, endUnit, pagePath, pathInstructions,
                        isGeneratingInstructions>>
       ELSE /\ datasets' = getDatasets(added.db)
            /\ currentPage' = "map"
            /\ MapPageMounts(getActiveCampusData(added.db))
    /\ UNCHANGED requests
    /\ UNCHANGED hookVars

handleDataUpload(cd) == DataUploadWith(addDataset(db, cd, TRUE))

\* loadData on the admin page: the campus data and the list of datasets
loadData(d) ==
    /\ data' = getActiveCampusData(d)
    /\ datasets' = getDatasets(d)
    /\ UNCHANGED <<navGraph, filter, waypoints, pathDistance, currentPage, startUnit,
                   endUnit, pagePath, pathInstructions, isGeneratingInstructions,
                   requests>>
    /\ UNCHANGED hookVars

\* the rows of the list of datasets the admin page shows
Listed(id) == {k \in 1..Len(datasets) : datasets[k].id = id}

\* handleSwitchDataset: the Activate button of a dataset listed as inactive
handleSwitchDataset(id) ==
    /\ currentPage = "admin"
    /\ \E k \in Listed(id) : ~datasets[k].isActive
    /\ db' = setActiveDataset(db, id)
    /\ loadData(setActiveDataset(db, id))

\* handleDeleteDataset with what deleteDataset left: the Delete button of a
\* listed dataset, disabled when one dataset is listed
DeleteDatasetWith(id, deleted) ==
    /\ currentPage = "admin"
    /\ Listed(id) # {}
    /\ Len(datasets) > 1
    /\ db' = deleted.db
    /\ IF deleted.threw
       THEN UNCHANGED <<data, navGraph, filter, waypoints, pathDistance, datasets,
                        currentPage, startUnit, endUnit, pagePath, pathInstructions,
                        isGeneratingInstructions, requests, hookVars>>
       ELSE loadData(deleted.db)

handleDeleteDataset(id) == DeleteDatasetWith(id, deleteDataset(db, id))

AppNext ==
    \/ \E u \in selectableUnits(data) : SetStartUnit(u)
    \/ \E u \in selectableUnits(data) : SetEndUnit(u)
    \/ \E f \in AccessibilityFilter : SetFilter(f)
    \/ handleFindPath
    \/ \E r \in requests, kind \in ReplyKinds : InstructionsResolved(r, kind)
    \/ handleClearPath
    \/ \E page \in {"map", "admin"} : setCurrentPage(page)
    \/ \E cd \in UploadsAt(db.seq) : handleDataUpload(cd)
    \/ \E id \in 1..MaxDatasetId : handleSwitchDataset(id)
    \/ \E id \in 1..MaxDatasetId : handleDeleteDataset(id)

AppSpec == AppInit /\ [][AppNext]_vars

-----------------------------------------------------------------------------
(* Vocabulary of the properties *)

Range(seq) == {seq[k] : k \in 1..Len(seq)}

\* every edge stored in a graph
AllEdges(g) == UNION {Range(g.edges[id]) : id \in DOMAIN g.edges}

\* the type of the unit of that id in the campus data, Undefined when there is none
UnitTypeOfId(d, id) ==
    IF \E k \in 1..Len(d.units) : d.units[k].id = id
    THEN d.units[CHOOSE k \in 1..Len(d.units) : d.units[k].id = id].type
    ELSE Undefined

\* the filter as the specification states it: ELEVATOR_ONLY admits a vertical
\* edge only between two ELEVATOR units
Admits(d, f, edge) ==
    \/ f = NONE
    \/ edge.type # "vertical"
    \/ (UnitTypeOfId(d, edge.from) = ELEVATOR /\ UnitTypeOfId(d, edge.to) = ELEVATOR)

AdmittedEdges(d, g, f) == {edge \in AllEdges(g) : Admits(d, f, edge)}

SetMin(S) == CHOOSE m \in S : \A o \in S : m <= o

\* least weights from s by rounds of relaxation over a set of edges (Bellman-Ford)
RECURSIVE LeastWeights(_, _, _, _)
LeastWeights(E, N, dist, rounds) ==
    IF rounds = 0 THEN dist
    ELSE LeastWeights(E, N,
             [v \in N |->
                 SetMin({dist[v]} \cup
                        {dist[edge.from] + edge.weight :
                            edge \in {x \in E : x.to = v /\ dist[x.from] < Infinity}})],
             rounds - 1)

\* the least total weight of a route from s to each node over the admitted edges
MinWeight(d, g, f, s) ==
    LeastWeights(AdmittedEdges(d, g, f), NodeIds(g),
                 [v \in NodeIds(g) |-> IF v = s THEN 0 ELSE Infinity],
                 Cardinality(NodeIds(g)))

\* the weight of the lightest admitted edge from a to b, Infinity when there is none
StepWeight(E, a, b) ==
    LET W == {edge.weight : edge \in {x \in E : x.from = a /\ x.to = b}}
    IN  IF W = {} THEN Infinity ELSE SetMin(W)

RECURSIVE PathWeight(_, _)
PathWeight(E, path) ==
    IF Len(path) < 2 THEN 0
    ELSE StepWeight(E, path[1], path[2]) + PathWeight(E, Tail(path))

Returned == pc = "done" /\ ~result.null

BothAreNodes == startId \in NodeIds(navGraph) /\ endId \in NodeIds(navGraph)

\* the path of the state crosses an edge of type vertical between two of its ids
CrossesVertical ==
    \E i \in 1..(Len(result.path) - 1) :
        /\ \E edge \in AllEdges(navGraph) :
               edge.from = result.path[i] /\ edge.to = result.path[i + 1]
               /\ edge.type = "vertical"
        /\ ~\E edge \in AllEdges(navGraph) :
               edge.from = result.path[i] /\ edge.to = result.path[i + 1]
               /\ edge.type = "horizontal"

-----------------------------------------------------------------------------
(* C1 *)

\* C1: when getPath returns a path, the sum of the weights of the edges between
\* its consecutive ids equals the least total weight over all routes from start
\* to end that use only edges the filter admits.
C1_PathWeightIsMinimum ==
    Returned =>
        PathWeight(AdmittedEdges(data, navGraph, filter), result.path)
            = MinWeight(data, navGraph, filter, startId)[endId]

\* a returned path of three or more nodes whose end could also be entered from
\* another reachable node at a strictly greater total weight
C1_Witness ==
    /\ Returned
    /\ Len(result.path) >= 3
    /\ \E edge \in AdmittedEdges(data, navGraph, filter) :
           LET least == MinWeight(data, navGraph, filter, startId)
           IN  /\ edge.to = endId
               /\ edge.from # result.path[Len(result.path) - 1]
               /\ least[edge.from] < Infinity
               /\ least[edge.from] + edge.weight > least[endId]

(* C2 *)

\* C2: in every built graph, for every stored edge from A to B with weight w and
\* type t, the adjacency list of B holds an edge from B to A of the same weight
\* and type, whichever pass added it.
C2_EdgesSymmetric ==
    \A id \in DOMAIN navGraph.edges :
        \A edge \in Range(navGraph.edges[id]) :
            /\ edge.from = id
            /\ edge.to \in DOMAIN navGraph.edges
            /\ Edge(edge.to, edge.from, edge.weight, edge.type)
                   \in Range(navGraph.edges[edge.to])

\* a built graph that holds a vertical edge and an edge of the fallback pass
C2_Witness ==
    /\ \E edge \in AllEdges(navGraph) : edge.type = "vertical"
    /\ AllEdges(navGraph) # AllEdges(GraphAfterVertical(data))
    /\ \E edge \in AllEdges(GraphAfterAdjacency(data)) : edge.type = "horizontal"

(* C3 *)

\* C3: for every pair of ids u, v and each filter, getPath(u, v) is null exactly
\* when getPath(v, u) is null, and when both are paths they have equal weight.
C3_ReversePathAgrees ==
    pc = "done" =>
        LET back == getPath(navGraph, endId, startId, filter)
            E == AdmittedEdges(data, navGraph, filter)
        IN  /\ result.null <=> back.null
            /\ ~result.null => PathWeight(E, result.path) = PathWeight(E, back.path)

\* a returned path between two different nodes under ELEVATOR_ONLY that
\* changes floor
C3_Witness ==
    /\ Returned
    /\ startId # endId
    /\ filter = ELEVATOR_ONLY
    /\ CrossesVertical

(* C4 *)

\* the stored edges from a to b that the search can have followed into b
FollowedEdges(a, b) ==
    {edge \in AllEdges(navGraph) :
        edge.from = a /\ edge.to = b /\ distances[a] + edge.weight = distances[b]}

\* C4: under ELEVATOR_ONLY every vertical edge a returned path traverses has
\* both endpoint units of type ELEVATOR; no returned path crosses a vertical
\* edge with a STAIRS endpoint.
C4_ElevatorOnlyAvoidsStairs ==
    (Returned /\ filter = ELEVATOR_ONLY) =>
        \A i \in 1..(Len(result.path) - 1) :
            \A edge \in FollowedEdges(result.path[i], result.path[i + 1]) :
                edge.type = "vertical" =>
                    /\ UnitTypeOfId(data, edge.from) = ELEVATOR
                    /\ UnitTypeOfId(data, edge.to) = ELEVATOR

\* a path returned under ELEVATOR_ONLY that changes floor and passes an
\* ELEVATOR unit that a vertical edge joins to a STAIRS unit
C4_Witness ==
    /\ Returned
    /\ filter = ELEVATOR_ONLY
    /\ CrossesVertical
    /\ \E edge \in AllEdges(navGraph) :
           /\ edge.type = "vertical"
           /\ UnitTypeOfId(data, edge.from) = STAIRS
           /\ UnitTypeOfId(data, edge.to) = ELEVATOR
           /\ edge.to \in Range(result.path)

(* C5 *)

\* C5: getPath returns null, without running the search, whenever startId or
\* endId is empty or is not the id of a node of the current graph.
C5_InvalidEndpointsGiveNull ==
    (pc \notin {"idle", "memo"} /\ (startId = "" \/ endId = "" \/ ~BothAreNodes)) =>
        /\ pc = "done"
        /\ result.null
        /\ distances = NoMap /\ previous = NoMap /\ queue = {}

\* a call whose start is a node and whose end is a non-empty id that is no node
C5_Witness ==
    /\ pc = "done"
    /\ startId \in NodeIds(navGraph)
    /\ endId # ""
    /\ endId \notin NodeIds(navGraph)
    /\ result.null

(* C6 *)

\* C6: when both ids are nodes but no route of filter-admitted edges joins
\* them, getPath returns null.
C6_NoRouteGivesNull ==
    (pc = "done" /\ BothAreNodes
       /\ MinWeight(data, navGraph, filter, startId)[endId] = Infinity) =>
        result.null

\* a call under ELEVATOR_ONLY between two nodes that are joined when every
\* edge is admitted, and that returns null
C6_Witness ==
    /\ pc = "done"
    /\ BothAreNodes
    /\ filter = ELEVATOR_ONLY
    /\ MinWeight(data, navGraph, NONE, startId)[endId] < Infinity
    /\ result.null

(* C7 *)

\* C7: every non-null result starts with startId, ends with endId, and joins
\* each consecutive pair by a stored edge the filter admits; when startId
\* equals endId the result is the one-element list of that id.
C7_PathIsWellFormed ==
    /\ Returned =>
           /\ result.path[1] = startId
           /\ result.path[Len(result.path)] = endId
           /\ \A i \in 1..(Len(result.path) - 1) :
                  \E edge \in Range(EdgesOf(navGraph.edges, result.path[i])) :
                      /\ edge.from = result.path[i]
                      /\ edge.to = result.path[i + 1]
                      /\ Admits(data, filter, edge)
    /\ (pc = "done" /\ BothAreNodes /\ startId = endId) =>
           result = [null |-> FALSE, path |-> <<startId>>]

\* a returned path of three or more nodes
C7_Witness ==
    /\ Returned
    /\ Len(result.path) >= 3
    /\ result.path[2] \notin {startId, endId}

(* C8 *)

RestrictedIds == {data.units[k].id : k \in {m \in 1..Len(data.units) :
                                               data.units[m].type = RESTRICTED}}

\* C8: no RESTRICTED unit is a node of the built graph or an endpoint of an
\* edge, whatever its accessible flag, and getPath from or to its id is null.
C8_RestrictedNeverRouted ==
    \A id \in RestrictedIds :
        /\ id \notin NodeIds(navGraph)
        /\ id \notin DOMAIN navGraph.edges
        /\ \A edge \in AllEdges(navGraph) : edge.from # id /\ edge.to # id
        /\ (pc = "done" /\ (startId = id \/ endId = id)) => result.null

\* a call from a node to a RESTRICTED unit whose accessible flag is true and
\* which shares a wall with the start unit on the same level
C8_Witness ==
    /\ pc = "done"
    /\ startId \in NodeIds(navGraph)
    /\ endId \in RestrictedIds
    /\ \E a, b \in 1..Len(data.units) :
           /\ data.units[a].id = startId
           /\ data.units[b].id = endId
           /\ data.units[b].accessible = "true"
           /\ data.units[a].levelId = data.units[b].levelId
           /\ findSharedEdge(data.units[a].polygon, data.units[b].polygon).found

(* C9 *)

\* C9: a unit is a node exactly when its type is not RESTRICTED and its
\* accessible flag is not explicitly false; a unit whose flag is explicitly
\* false gets no edges.
C9_AccessibleFlagOptsOut ==
    \A k \in 1..Len(data.units) :
        LET u == data.units[k]
        IN  /\ u.id \in NodeIds(navGraph)
                <=> (u.type # RESTRICTED /\ u.accessible # "false")
            /\ u.accessible = "false" => EdgesOf(navGraph.edges, u.id) = <<>>

\* C9, amended: a unit is a node exactly when its type is not RESTRICTED,
\* whatever its accessible flag (missing, true or explicitly false).
C9_OnlyTypeDecides ==
    \A k \in 1..Len(data.units) :
        data.units[k].id \in NodeIds(navGraph) <=> data.units[k].type # RESTRICTED

\* a graph in which a unit whose flag is explicitly false is a node with an
\* edge, and a unit whose flag is missing is a node
C9_Witness ==
    /\ \E k \in 1..Len(data.units) :
           /\ data.units[k].accessible = "false"
           /\ data.units[k].id \in NodeIds(navGraph)
           /\ EdgesOf(navGraph.edges, data.units[k].id) # <<>>
    /\ \E k \in 1..Len(data.units) :
           /\ data.units[k].accessible = Undefined
           /\ data.units[k].id \in NodeIds(navGraph)

(* C10 *)

CenterIndexes == {k \in 1..Len(navGraph.nodes) : navGraph.nodes[k].type = "center"}

\* C10: the built graph has exactly one center node for each traversable unit,
\* carrying the unit's id, originalUnitId, levelId and type, and no other
\* center node.
C10_OneCenterPerUnit ==
    /\ \A k \in 1..Len(data.units) :
           data.units[k].type # RESTRICTED =>
               /\ Cardinality({n \in CenterIndexes :
                                  navGraph.nodes[n].id = data.units[k].id}) = 1
               /\ \A n \in CenterIndexes :
                      navGraph.nodes[n].id = data.units[k].id =>
                          /\ navGraph.nodes[n].originalUnitId = data.units[k].id
                          /\ navGraph.nodes[n].levelId = data.units[k].levelId
                          /\ navGraph.nodes[n].unitType = data.units[k].type
    /\ \A n \in CenterIndexes :
           \E k \in 1..Len(data.units) :
               /\ data.units[k].type # RESTRICTED
               /\ data.units[k].id = navGraph.nodes[n].id

\* a graph of two or more center nodes and a waypoint node, built from data
\* that holds a RESTRICTED unit
C10_Witness ==
    /\ Cardinality(CenterIndexes) >= 2
    /\ CenterIndexes # 1..Len(navGraph.nodes)
    /\ RestrictedIds # {}

-----------------------------------------------------------------------------
(* Vocabulary of the properties of the builder's passes *)

\* the hook holds a freshly built graph and no call is under way
Idle == pc = "idle"

TransitKinds == {CORRIDOR, STAIRS, ELEVATOR, ENTRANCE}

Min(a, b) == IF a < b THEN a ELSE b

Max(a, b) == IF a > b THEN a ELSE b

\* the extent of a polygon along each axis
BoxOf(polygon) ==
    [x0 |-> SetMin({polygon[k].x : k \in 1..Len(polygon)}),
     x1 |-> -SetMin({-polygon[k].x : k \in 1..Len(polygon)}),
     y0 |-> SetMin({polygon[k].y : k \in 1..Len(polygon)}),
     y1 |-> -SetMin({-polygon[k].y : k \in 1..Len(polygon)})]

\* two axis-parallel rectangles with disjoint interiors have a stretch of wall
\* of non-zero length in common
SharesWall(p, q) ==
    LET a == BoxOf(p)
        b == BoxOf(q)
    IN  \/ /\ a.x1 = b.x0 \/ b.x1 = a.x0
           /\ Min(a.y1, b.y1) - Max(a.y0, b.y0) > 0
        \/ /\ a.y1 = b.y0 \/ b.y1 = a.y0
           /\ Min(a.x1, b.x1) - Max(a.x0, b.x0) > 0

\* two such rectangles meet in one corner point and nowhere else
TouchAtPointOnly(p, q) ==
    LET a == BoxOf(p)
        b == BoxOf(q)
    IN  /\ a.x1 = b.x0 \/ b.x1 = a.x0
        /\ a.y1 = b.y0 \/ b.y1 = a.y0

\* a stored edge of the graph leads from a to b
Joined(g, a, b) == \E edge \in AllEdges(g) : edge.from = a /\ edge.to = b

\* the waypoint nodes of the graph joined to both a and b
WaypointsBetween(g, a, b) ==
    {k \in 1..Len(g.nodes) :
        /\ g.nodes[k].type = "waypoint"
        /\ Joined(g, g.nodes[k].id, a)
        /\ Joined(g, g.nodes[k].id, b)}

\* the pairs i < j of the traversable units of the data
UnitPairs(tu) == {ij \in (1..Len(tu)) \X (1..Len(tu)) : ij[1] < ij[2]}

Adjacent(unitA, unitB) ==
    unitA.levelId = unitB.levelId /\ SharesWall(unitA.polygon, unitB.polygon)

(* C11 *)

\* what the claim says of one pair of traversable units in the graph g of the
\* adjacency pass
PairConnectedAsStated(g, unitA, unitB) ==
    IF Adjacent(unitA, unitB)
    THEN IF unitA.type \in TransitKinds /\ unitB.type \in TransitKinds
         THEN /\ \E edge \in AllEdges(g) :
                     /\ edge.from = unitA.id /\ edge.to = unitB.id
                     /\ edge.type = "horizontal"
              /\ WaypointsBetween(g, unitA.id, unitB.id) = {}
         ELSE /\ \E k \in WaypointsBetween(g, unitA.id, unitB.id) :
                     /\ g.nodes[k].levelId = unitA.levelId
                     /\ Joined(g, unitA.id, g.nodes[k].id)
                     /\ Joined(g, unitB.id, g.nodes[k].id)
              /\ ~Joined(g, unitA.id, unitB.id)
              /\ ~Joined(g, unitB.id, unitA.id)
    ELSE /\ ~Joined(g, unitA.id, unitB.id)
         /\ ~Joined(g, unitB.id, unitA.id)
         /\ WaypointsBetween(g, unitA.id, unitB.id) = {}

\* C11: after the same-level adjacency pass, two traversable units of one level
\* that share a wall are joined directly, with no waypoint, when both are of a
\* transit type (CORRIDOR, STAIRS, ELEVATOR, ENTRANCE), and otherwise through a
\* waypoint of that level (center A - waypoint - center B) with no direct edge;
\* pairs on different levels and pairs that share no wall get no edge and no
\* waypoint.
C11_AdjacencyPassConnects ==
    Idle =>
        LET tu == TraversableUnits(data)
            g == GraphAfterAdjacency(data)
        IN  \A ij \in UnitPairs(tu) : PairConnectedAsStated(g, tu[ij[1]], tu[ij[2]])

\* data with two transit units sharing a wall on one level, a room sharing a
\* wall with another unit on one level, and two units whose polygons share a
\* wall but lie on different levels
C11_Witness ==
    /\ Idle
    /\ LET tu == TraversableUnits(data)
       IN  /\ \E ij \in UnitPairs(tu) :
                  /\ Adjacent(tu[ij[1]], tu[ij[2]])
                  /\ tu[ij[1]].type \in {STAIRS, ELEVATOR}
                  /\ tu[ij[2]].type = CORRIDOR
           /\ \E ij \in UnitPairs(tu) :
                  /\ Adjacent(tu[ij[1]], tu[ij[2]])
                  /\ tu[ij[1]].type = CORRIDOR
                  /\ tu[ij[2]].type = CLASSROOM
           /\ \E ij \in UnitPairs(tu) :
                  /\ SharesWall(tu[ij[1]].polygon, tu[ij[2]].polygon)
                  /\ tu[ij[1]].levelId # tu[ij[2]].levelId

(* C12 *)

\* the data with its units listed in another order
Reordered(d, f) == [d EXCEPT !.units = [k \in 1..Len(d.units) |-> d.units[f[k]]]]

\* each waypoint id of a graph with the set of the ids it is joined to
WaypointIdsOfPairs(g) ==
    {<<g.nodes[k].id, {edge.to : edge \in Range(EdgesOf(g.edges, g.nodes[k].id))}>> :
        k \in {n \in 1..Len(g.nodes) : g.nodes[n].type = "waypoint"}}

\* C12: the waypoint id of a pair of units is the same in the graph built from
\* the units listed in any order, and no two nodes of a built graph have the
\* same id.
C12_WaypointIdOfUnorderedPair ==
    Idle =>
        /\ LET here == WaypointIdsOfPairs(navGraph)
           IN  \A f \in Permutations(1..Len(data.units)) :
                   WaypointIdsOfPairs(generateNavigationGraph(Reordered(data, f))) = here
        /\ \A k, m \in 1..Len(navGraph.nodes) :
               k # m => navGraph.nodes[k].id # navGraph.nodes[m].id

\* data of three or more units whose graph has two or more waypoint nodes
C12_Witness ==
    /\ Idle
    /\ Len(data.units) >= 3
    /\ Cardinality({k \in 1..Len(navGraph.nodes) :
                       navGraph.nodes[k].type = "waypoint"}) >= 2

(* C13 *)

LevelZ(d, levelId) ==
    LET L == {l \in Range(d.levels) : l.id = levelId}
    IN  IF L = {} THEN 0 ELSE (CHOOSE l \in L : TRUE).zIndex

\* the positions, in the list of traversable units, of the STAIRS and ELEVATOR
\* units that carry the connector id vc
ShaftMembers(tu, vc) ==
    {k \in 1..Len(tu) :
        tu[k].type \in {STAIRS, ELEVATOR} /\ tu[k].verticalConnectorId = vc}

\* the place of unit k among the members of its shaft, ordered by the zIndex
\* of their levels and, on equal zIndex, by their place in the list
ShaftRank(d, tu, k) ==
    Cardinality({m \in ShaftMembers(tu, tu[k].verticalConnectorId) :
                    \/ LevelZ(d, tu[m].levelId) < LevelZ(d, tu[k].levelId)
                    \/ /\ LevelZ(d, tu[m].levelId) = LevelZ(d, tu[k].levelId)
                       /\ m < k})

\* the number of vertical edges stored from a to b
VerticalCount(g, a, b) ==
    Cardinality({i \in 1..Len(EdgesOf(g.edges, a)) :
                    g.edges[a][i].to = b /\ g.edges[a][i].type = "vertical"})

ConnectorIdsOf(tu) ==
    {tu[k].verticalConnectorId : k \in 1..Len(tu)} \ {Undefined}

\* C14: the traversable STAIRS/ELEVATOR units of one verticalConnectorId,
\* ordered by the zIndex of their level (0 when the level is missing), are
\* joined by one vertical edge between each consecutive pair of that order
\* and between no other pair, k - 1 undirected edges for k units; no vertical
\* edge joins units of different or absent verticalConnectorId, or any other
\* node.
C14_VerticalEdgesJoinConsecutiveFloors ==
    Idle =>
        LET tu == TraversableUnits(data)
        IN  /\ \A k, m \in 1..Len(tu) :
                   VerticalCount(navGraph, tu[k].id, tu[m].id) =
                       IF /\ k # m
                          /\ tu[k].verticalConnectorId # Undefined
                          /\ k \in ShaftMembers(tu, tu[k].verticalConnectorId)
                          /\ m \in ShaftMembers(tu, tu[k].verticalConnectorId)
                          /\ Abs(ShaftRank(data, tu, k) - ShaftRank(data, tu, m)) = 1
                       THEN 1 ELSE 0
            /\ \A vc \in ConnectorIdsOf(tu) :
                   ShaftMembers(tu, vc) # {} =>
                       Cardinality({km \in UnitPairs(tu) :
                                       /\ km[1] \in ShaftMembers(tu, vc)
                                       /\ km[2] \in ShaftMembers(tu, vc)
                                       /\ VerticalCount(navGraph, tu[km[1]].id,
                                                        tu[km[2]].id) > 0})
                           = Cardinality(ShaftMembers(tu, vc)) - 1
            /\ \A edge \in AllEdges(navGraph) :
                   edge.type = "vertical" =>
                       \E k, m \in 1..Len(tu) :
                           tu[k].id = edge.from /\ tu[m].id = edge.to

\* a shaft of three units whose floors are not in list order, one of them on
\* a level that data.levels does not hold
C14_Witness ==
    /\ Idle
    /\ LET tu == TraversableUnits(data)
       IN  \E vc \in ConnectorIdsOf(tu) :
               /\ Cardinality(ShaftMembers(tu, vc)) = 3
               /\ \E k, m \in ShaftMembers(tu, vc) :
                      k < m /\ ShaftRank(data, tu, m) < ShaftRank(data, tu, k)
               /\ \E k \in ShaftMembers(tu, vc) :
                      \A l \in Range(data.levels) : l.id # tu[k].levelId

(* C15 *)

\* the other traversable units of the level of unit k
SameLevelOthers(tu, k) ==
    {m \in 1..Len(tu) : m # k /\ tu[m].levelId = tu[k].levelId}

CentroidDistance(unitA, unitB) ==
    getEuclideanDistance(getPolygonCenter(unitA.polygon), getPolygonCenter(unitB.polygon))

\* the traversable units with no edge after the adjacency and vertical passes
IsolatedUnits(tu, gv) ==
    {k \in 1..Len(tu) : EdgesOf(gv.edges, tu[k].id) = <<>>}

\* the unit k has a same-level unit nearer than the 0.005 threshold
HasNearNeighbour(tu, k) ==
    \E m \in SameLevelOthers(tu, k) : CentroidDistance(tu[k], tu[m]) < ProximityLimit

\* the edges of the final graph g at id that the graph gv of the passes
\* before the fallback pass does not hold
FallbackEdgesAt(gv, g, id) ==
    LET before == EdgesOf(gv.edges, id)
        after == EdgesOf(g.edges, id)
    IN  {after[i] : i \in (Len(before) + 1)..Len(after)}

\* C15: in the returned graph every traversable unit that had no edge after
\* the adjacency and vertical passes is joined by a horizontal edge to a
\* nearest traversable unit of its own level when that distance is below the
\* threshold of 0.005, and has no edge at all when the nearest one is at or
\* beyond the threshold or its level holds no other traversable unit; the
\* fallback pass joins only units of one level.
C15_FallbackJoinsNearestOnLevel ==
    Idle =>
        LET tu == TraversableUnits(data)
            gv == GraphAfterVertical(data)
            isolated == IsolatedUnits(tu, gv)
        IN  /\ \A k \in isolated :
                   IF HasNearNeighbour(tu, k)
                   THEN \E m \in SameLevelOthers(tu, k) :
                            /\ \A o \in SameLevelOthers(tu, k) :
                                   CentroidDistance(tu[k], tu[m])
                                       <= CentroidDistance(tu[k], tu[o])
                            /\ Edge(tu[k].id, tu[m].id, CentroidDistance(tu[k], tu[m]),
                                    "horizontal") \in Range(EdgesOf(navGraph.edges, tu[k].id))
                            /\ Edge(tu[m].id, tu[k].id, CentroidDistance(tu[k], tu[m]),
                                    "horizontal") \in Range(EdgesOf(navGraph.edges, tu[m].id))
                   ELSE EdgesOf(navGraph.edges, tu[k].id) = <<>>
            /\ \A k, m \in 1..Len(tu) :
                   \A edge \in FallbackEdgesAt(gv, navGraph, tu[k].id) :
                       edge.to = tu[m].id =>
                           /\ tu[k].levelId = tu[m].levelId
                           /\ edge.type = "horizontal"
                           /\ k \in isolated \/ m \in isolated
            /\ \A id \in NodeIds(navGraph) \ {tu[k].id : k \in 1..Len(tu)} :
                   FallbackEdgesAt(gv, navGraph, id) = {}

\* one floor on which a unit with no shared wall is joined to its nearest
\* neighbour, 49 units away, and another, whose nearest neighbour is exactly
\* at the threshold, keeps no edge
C15_Witness ==
    /\ Idle
    /\ LET tu == TraversableUnits(data)
           isolated == IsolatedUnits(tu, GraphAfterVertical(data))
       IN  /\ \E k \in isolated :
                  /\ HasNearNeighbour(tu, k)
                  /\ EdgesOf(navGraph.edges, tu[k].id) # <<>>
           /\ \E k \in isolated :
                  /\ \E m \in SameLevelOthers(tu, k) :
                         CentroidDistance(tu[k], tu[m]) = ProximityLimit
                  /\ ~HasNearNeighbour(tu, k)
                  /\ EdgesOf(navGraph.edges, tu[k].id) = <<>>

(* C16 *)

\* the graph with every edge of type vertical taken out of its adjacency lists
WithoutVertical(g) ==
    LET Level(edge) == edge.type # "vertical"
    IN  [g EXCEPT !.edges = [id \in DOMAIN g.edges |-> SelectSeq(g.edges[id], Level)]]

\* C16: on the bundled two-floor data getPath("U100", "U204", NONE) returns a
\* path that begins with U100, ends with U204 and holds U108 immediately
\* followed by U208; with every vertical edge forbidden the same query
\* returns null.
C16_FixtureRouteTakesStairs ==
    /\ (pc = "done" /\ startId = "U100" /\ endId = "U204" /\ filter = NONE) =>
           /\ ~result.null
           /\ result.path[1] = "U100"
           /\ result.path[Len(result.path)] = "U204"
           /\ \E i \in 1..(Len(result.path) - 1) :
                  result.path[i] = "U108" /\ result.path[i + 1] = "U208"
    /\ Idle => getPath(WithoutVertical(navGraph), "U100", "U204", NONE).null

\* the call getPath("U100", "U204", NONE) on the bundled data has returned
C16_Witness ==
    /\ data = campusData
    /\ pc = "done"
    /\ startId = "U100"
    /\ endId = "U204"
    /\ filter = NONE
    /\ Len(result.path) >= 2

(* C17 *)

\* C17: for two polygons that meet in exactly one point, findSharedEdge finds
\* no edge in either argument order, and when they belong to two traversable
\* units of one level the adjacency pass stores no edge between the two units
\* and makes no waypoint for them.
C17_VertexTouchIsNotAdjacency ==
    Idle =>
        LET ga == GraphAfterAdjacency(data)
        IN  \A k, m \in 1..Len(data.units) :
                LET unitA == data.units[k]
                    unitB == data.units[m]
                IN  (k # m /\ TouchAtPointOnly(unitA.polygon, unitB.polygon)) =>
                        /\ ~findSharedEdge(unitA.polygon, unitB.polygon).found
                        /\ ~findSharedEdge(unitB.polygon, unitA.polygon).found
                        /\ (unitA.type # RESTRICTED /\ unitB.type # RESTRICTED
                              /\ unitA.levelId = unitB.levelId) =>
                               /\ ~Joined(ga, unitA.id, unitB.id)
                               /\ ~Joined(ga, unitB.id, unitA.id)
                               /\ WaypointsBetween(ga, unitA.id, unitB.id) = {}

\* two traversable units of one level whose polygons meet in one corner, which
\* the adjacency pass leaves apart and the fallback pass then joins, beside a
\* third unit on that level
C17_Witness ==
    /\ Idle
    /\ Len(TraversableUnits(data)) >= 3
    /\ \E k, m \in 1..Len(data.units) :
           /\ k # m
           /\ TouchAtPointOnly(data.units[k].polygon, data.units[m].polygon)
           /\ data.units[k].levelId = data.units[m].levelId
           /\ data.units[k].type = CORRIDOR
           /\ data.units[m].type = CLASSROOM
           /\ ~Joined(GraphAfterAdjacency(data), data.units[k].id, data.units[m].id)
           /\ Joined(navGraph, data.units[k].id, data.units[m].id)

(* C18 *)

\* the length of the stretch of waypoints s..e, every consecutive pair measured
RECURSIVE Stretch(_, _, _)
Stretch(wps, s, e) ==
    IF s >= e THEN 0
    ELSE getHaversineDistance(wps[s].point, wps[s + 1].point) + Stretch(wps, s + 1, e)

\* the last index of the maximal same-level run that begins at s
RunEnd(wps, s) ==
    CHOOSE e \in s..Len(wps) :
        /\ \A i \in s..e : wps[i].levelId = wps[s].levelId
        /\ e = Len(wps) \/ wps[e + 1].levelId # wps[s].levelId

\* the sum of the lengths of the maximal same-level runs from index s on
RECURSIVE SumOfRuns(_, _)
SumOfRuns(wps, s) ==
    IF s > Len(wps) THEN 0
    ELSE Stretch(wps, s, RunEnd(wps, s)) + SumOfRuns(wps, RunEnd(wps, s) + 1)

LevelChanges(wps) ==
    {i \in 1..(Len(wps) - 1) : wps[i].levelId # wps[i + 1].levelId}

\* C18: calculatePathDistance adds a length only for consecutive waypoints of
\* one level: a pair of different levels contributes exactly 0, and the result
\* is the sum of the lengths of the maximal same-level runs of the list.
C18_DistanceSkipsLevelChanges ==
    pc = "measured" =>
        /\ pathDistance.value = SumOfRuns(waypoints.list, 1)
        /\ \A i \in LevelChanges(waypoints.list) :
               calculatePathDistance(SubSeq(waypoints.list, i, i + 1)) = 0
        /\ \A i \in 1..Len(waypoints.list) :
               calculatePathDistance(SubSeq(waypoints.list, 1, i))
                   + calculatePathDistance(SubSeq(waypoints.list, i, Len(waypoints.list)))
                   = pathDistance.value

\* a measured route that changes level twice, between waypoints that lie
\* apart in the plane, and has a same-level stretch of non-zero length
C18_Witness ==
    /\ pc = "measured"
    /\ Cardinality(LevelChanges(waypoints.list)) = 2
    /\ \A i \in LevelChanges(waypoints.list) :
           getHaversineDistance(waypoints.list[i].point, waypoints.list[i + 1].point) > 0
    /\ pathDistance.value > 0

(* C19 *)

\* the middle of the stretch of wall two axis-parallel rectangles have in common
WallMidpoint(p, q) ==
    LET a == BoxOf(p)
        b == BoxOf(q)
    IN  IF (a.x1 = b.x0 \/ b.x1 = a.x0) /\ Min(a.y1, b.y1) - Max(a.y0, b.y0) > 0
        THEN Pt(IF a.x1 = b.x0 THEN a.x1 ELSE a.x0,
                (Max(a.y0, b.y0) + Min(a.y1, b.y1)) \div 2)
        ELSE Pt((Max(a.x0, b.x0) + Min(a.x1, b.x1)) \div 2,
                IF a.y1 = b.y0 THEN a.y1 ELSE a.y0)

\* the middle of a rectangle
BoxCentre(polygon) ==
    LET a == BoxOf(polygon)
    IN  Pt((a.x0 + a.x1) \div 2, (a.y0 + a.y1) \div 2)

\* what the data say of the node of that id: a unit's id names the unit's
\* centre, the door id of two adjacent units names the middle of their wall
StatedWaypoints(d, id) ==
    LET tu == TraversableUnits(d)
    IN  {[point |-> BoxCentre(tu[k].polygon), levelId |-> tu[k].levelId] :
            k \in {m \in 1..Len(tu) : tu[m].id = id}}
        \cup
        {[point |-> WallMidpoint(tu[ij[1]].polygon, tu[ij[2]].polygon),
          levelId |-> tu[ij[1]].levelId] :
            ij \in {pq \in UnitPairs(tu) :
                      /\ Adjacent(tu[pq[1]], tu[pq[2]])
                      /\ id \in {"door-" \o tu[pq[1]].id \o "--" \o tu[pq[2]].id,
                                 "door-" \o tu[pq[2]].id \o "--" \o tu[pq[1]].id}}}

\* C19: for the path getPath returned, getPathWaypoints returns a list of the
\* same length and order whose i-th element is the stored point and levelId of
\* the node path[i]: the centroid of the unit for a center node, the midpoint
\* of the shared edge for a waypoint node.
C19_WaypointsFollowThePath ==
    pc \in {"waypoints", "measured"} =>
        /\ ~waypoints.null
        /\ Len(waypoints.list) = Len(result.path)
        /\ \A i \in 1..Len(result.path) :
               /\ \E k \in 1..Len(navGraph.nodes) :
                      /\ navGraph.nodes[k].id = result.path[i]
                      /\ waypoints.list[i] = [point |-> navGraph.nodes[k].point,
                                              levelId |-> navGraph.nodes[k].levelId]
               /\ StatedWaypoints(data, result.path[i]) = {waypoints.list[i]}

\* the waypoints of a route through a door between two rooms: unit centres
\* and a wall midpoint
C19_Witness ==
    /\ pc = "waypoints"
    /\ Len(result.path) >= 3
    /\ \E i \in 1..Len(result.path) : NodeOf(navGraph, result.path[i]).type = "waypoint"
    /\ \E i \in 1..Len(result.path) : NodeOf(navGraph, result.path[i]).type = "center"
    /\ Len(waypoints.list) = Len(result.path)

(* C20 *)

\* the data hold no unit a visitor may enter: no units, or RESTRICTED ones only
NoTraversableUnit(d) == \A k \in 1..Len(d.units) : d.units[k].type = RESTRICTED

\* C20: from a CampusData value with no traversable unit (no units, or only
\* RESTRICTED units) generateNavigationGraph returns a graph with no nodes and
\* no edges, and every getPath call on that graph returns null.
C20_NoTraversableUnitNoRoute ==
    NoTraversableUnit(data) =>
        /\ navGraph.nodes = <<>>
        /\ AllEdges(navGraph) = {}
        /\ generateNavigationGraph(data) = [nodes |-> <<>>, edges |-> EmptyEdges]
        /\ pc \in {"idle", "memo", "done"}
        /\ pc = "done" => result.null
        /\ \A s \in QueryIds(data, navGraph), e \in QueryIds(data, navGraph),
              f \in AccessibilityFilter : getPath(navGraph, s, e, f).null

\* a route was asked between two units of data that hold RESTRICTED units only
C20_Witness ==
    /\ NoTraversableUnit(data)
    /\ Len(data.units) >= 2
    /\ pc = "done"
    /\ startId = data.units[1].id
    /\ endId = data.units[2].id
    /\ result.null

\* a route was asked of data that hold no unit at all
C20_WitnessNoUnits ==
    /\ data.units = <<>>
    /\ pc = "done"
    /\ result.null

(* C21 *)

\* two units of one shaft stand in the unit list against the order of their
\* floors: the sort of STEP 4 has something to move
ShaftOutOfFloorOrder(d) ==
    \E k, m \in 1..Len(d.units) :
        /\ k < m
        /\ d.units[k].type \in {STAIRS, ELEVATOR}
        /\ d.units[m].type \in {STAIRS, ELEVATOR}
        /\ d.units[k].verticalConnectorId # Undefined
        /\ d.units[k].verticalConnectorId = d.units[m].verticalConnectorId
        /\ LevelZ(d, d.units[k].levelId) > LevelZ(d, d.units[m].levelId)

QueuePlace(g, id) == SetMin({k \in 1..Len(g.nodes) : g.nodes[k].id = id})

\* id is the node the scan of the queue selects: of finite distance, no queued
\* node is nearer, and none as near stands before it
IsSelected(g, dist, q, id) ==
    /\ id \in q
    /\ dist[id] < Infinity
    /\ \A v \in q : dist[id] <= dist[v]
    /\ \A v \in q : dist[v] = dist[id] => QueuePlace(g, id) <= QueuePlace(g, v)

\* C22: the search loop of getPath terminates: each iteration either leaves
\* the loop or takes one node out of the queue.  It leaves the loop as soon as
\* the end node is selected as the minimum or every queued node has infinite
\* distance, so neither the end node nor an unreachable node is ever expanded.
C22_SearchLoopTerminates ==
    /\ [][(pc = "search" /\ pc' = "search") =>
              \E u \in queue :
                  /\ IsSelected(navGraph, distances, queue, u)
                  /\ u # endId
                  /\ queue' = queue \ {u}]_vars
    /\ [][(pc = "search" /\ pc' = "reconstruct") =>
              /\ queue' = queue /\ distances' = distances /\ previous' = previous
              /\ \/ \A v \in queue : distances[v] = Infinity
                 \/ IsSelected(navGraph, distances, queue, endId)]_vars
    /\ [](pc \in {"search", "reconstruct"} =>
              /\ endId \in queue
              /\ \A id \in NodeIds(navGraph) \ queue : distances[id] < Infinity)
    /\ []((/\ pc = "search"
           /\ \/ \A v \in queue : distances[v] = Infinity
              \/ IsSelected(navGraph, distances, queue, endId))
              => ENABLED (SearchStep /\ pc' = "reconstruct"))
    /\ (pc = "search" ~> pc = "reconstruct")

\* the loop was left on selecting the end node after it had expanded a node,
\* with a reachable and an unreachable node still queued
C22_Witness ==
    /\ pc = "reconstruct"
    /\ IsSelected(navGraph, distances, queue, endId)
    /\ queue # NodeIds(navGraph)
    /\ \E v \in queue : v # endId /\ distances[v] < Infinity
    /\ \E v \in queue : distances[v] = Infinity

(* C23 *)

\* the ids met on following prev from v, v first, for at most n steps
RECURSIVE ChainFrom(_, _, _)
ChainFrom(prev, v, n) ==
    IF v = Null \/ n = 0 THEN <<>>
    ELSE <<v>> \o ChainFrom(prev, prev[v], n - 1)

NoRepeatedId(seq) == \A i, j \in 1..Len(seq) : i # j => seq[i] # seq[j]

\* C23: at every iteration of the search loop, every node v other than start
\* with finite tentative distance has a predecessor that was already taken out
\* of the queue, distance[v] is distance[previous[v]] plus the weight of an
\* edge previous[v] -> v the filter admits, and following previous from v
\* reaches start without meeting a node twice.  So no returned path holds an
\* id twice, also when some edge weights are 0.
C23_PreviousLeadsBackToStart ==
    /\ pc \in {"search", "reconstruct"} =>
           /\ distances[startId] = 0 /\ previous[startId] = Null
           /\ \A v \in NodeIds(navGraph) \ {startId} :
                  distances[v] < Infinity =>
                      /\ previous[v] \in NodeIds(navGraph) \ queue
                      /\ \E edge \in AdmittedEdges(data, navGraph, filter) :
                             /\ edge.from = previous[v]
                             /\ edge.to = v
                             /\ distances[v] = distances[previous[v]] + edge.weight
                      /\ LET chain == ChainFrom(previous, v,
                                                Cardinality(NodeIds(navGraph)) + 1)
                         IN  /\ chain[Len(chain)] = startId
                             /\ NoRepeatedId(chain)
    /\ Returned => NoRepeatedId(result.path)

\* a returned path of three nodes or more that crosses an edge of weight 0
C23_Witness ==
    /\ Returned
    /\ Len(result.path) >= 3
    /\ \E i \in 1..(Len(result.path) - 1) :
           \E edge \in AllEdges(navGraph) :
               /\ edge.from = result.path[i]
               /\ edge.to = result.path[i + 1]
               /\ edge.weight = 0

(* C24 *)

\* the ids of the traversable units that are rooms to go to, not ways through
DestinationIds(d) ==
    {u.id : u \in {x \in Range(d.units) : x.type \notin TransitKinds \cup {RESTRICTED}}}

\* the ids of the traversable units that had no edge before the fallback pass
IsolatedIds(d) ==
    LET tu == TraversableUnits(d)
    IN  {tu[k].id : k \in IsolatedUnits(tu, GraphAfterVertical(d))}

IsWaypoint(g, id) == id \in NodeIds(g) /\ NodeOf(g, id).type = "waypoint"

\* the step a -> b of a path joins the centre of a room to another centre
DirectRoomStep(d, g, a, b) ==
    /\ a \in DestinationIds(d) \/ b \in DestinationIds(d)
    /\ ~IsWaypoint(g, a)
    /\ ~IsWaypoint(g, b)

\* C24 as stated: in the final graph, fallback pass included, every edge at the
\* centre of a destination-type unit has a waypoint node at its other end, and
\* no returned path joins a destination room centre to centre.
C24_RoomEdgesEndAtWaypoints ==
    /\ Idle => \A edge \in AllEdges(navGraph) :
                   edge.from \in DestinationIds(data) => IsWaypoint(navGraph, edge.to)
    /\ Returned => \A i \in 1..(Len(result.path) - 1) :
                       ~DirectRoomStep(data, navGraph, result.path[i], result.path[i + 1])

\* C24 amended: before the fallback pass every edge at the centre of a
\* destination-type unit has a waypoint node at its other end; the fallback
\* pass adds centre-to-centre edges only at units that had no edge, so a
\* returned path joins a destination room centre to centre only where one of
\* the two units had no edge before the fallback pass.
C24_RoomEdgesEndAtWaypointsBeforeFallback ==
    /\ Idle =>
           LET gv == GraphAfterVertical(data)
               isolated == IsolatedIds(data)
           IN  /\ \A edge \in AllEdges(gv) :
                      edge.from \in DestinationIds(data) => IsWaypoint(gv, edge.to)
               /\ \A edge \in AllEdges(navGraph) :
                      (edge.from \in DestinationIds(data) /\ ~IsWaypoint(navGraph, edge.to)) =>
                          /\ edge \notin AllEdges(gv)
                          /\ edge.type = "horizontal"
                          /\ edge.from \in isolated \/ edge.to \in isolated
    /\ Returned =>
           LET isolated == IsolatedIds(data)
           IN  \A i \in 1..(Len(result.path) - 1) :
                   DirectRoomStep(data, navGraph, result.path[i], result.path[i + 1]) =>
                       result.path[i] \in isolated \/ result.path[i + 1] \in isolated

\* a returned path that leaves a destination room by the fallback edge to the
\* centre of its nearest neighbour
C24_Witness ==
    /\ Returned
    /\ Len(result.path) >= 2
    /\ result.path[1] \in DestinationIds(data)
    /\ result.path[1] \in IsolatedIds(data)
    /\ DirectRoomStep(data, navGraph, result.path[1], result.path[2])

(* C25 *)

UniqueUnitIds(d) ==
    \A k, m \in 1..Len(d.units) : k # m => d.units[k].id # d.units[m].id

\* the places in the adjacency list of id that hold an edge to the neighbour
EdgePlaces(g, id, neighbour) ==
    {i \in 1..Len(EdgesOf(g.edges, id)) : g.edges[id][i].to = neighbour}

\* C25: in every graph built from data with unique unit ids the adjacency list
\* of a node holds at most one edge to any given neighbour, also after the
\* fallback pass when two isolated units are each other's nearest neighbour.
C25_AtMostOneEdgePerNeighbour ==
    (Idle /\ UniqueUnitIds(data)) =>
        \A id \in DOMAIN navGraph.edges :
            \A neighbour \in NodeIds(navGraph) :
                Cardinality(EdgePlaces(navGraph, id, neighbour)) <= 1

\* two units that had no edge before the fallback pass and are each other's
\* nearest neighbour are joined twice: each adjacency list holds the same
\* horizontal edge two times
C25_MutualNearestJoinedTwice ==
    /\ Idle
    /\ UniqueUnitIds(data)
    /\ \E a, b \in IsolatedIds(data) :
           /\ a # b
           /\ Cardinality(EdgePlaces(navGraph, a, b)) = 2
           /\ Cardinality(EdgePlaces(navGraph, b, a)) = 2
           /\ \A i \in EdgePlaces(navGraph, a, b) : navGraph.edges[a][i].type = "horizontal"

(* C26 *)

IsCenter(g, id) == id \in NodeIds(g) /\ NodeOf(g, id).type = "center"

LevelOfNode(g, id) == NodeOf(g, id).levelId

\* C26: every edge of type vertical in the built graph joins two center nodes
\* of different levelId, and every edge of type horizontal joins two nodes of
\* the same levelId, also when two STAIRS/ELEVATOR units of one level carry
\* the same verticalConnectorId or a unit's level is missing from data.levels.
C26_VerticalEdgesChangeLevel ==
    Idle =>
        \A edge \in AllEdges(navGraph) :
            /\ edge.from \in NodeIds(navGraph) /\ edge.to \in NodeIds(navGraph)
            /\ edge.type = "vertical" =>
                   /\ IsCenter(navGraph, edge.from) /\ IsCenter(navGraph, edge.to)
                   /\ LevelOfNode(navGraph, edge.from) # LevelOfNode(navGraph, edge.to)
            /\ edge.type = "horizontal" =>
                   LevelOfNode(navGraph, edge.from) = LevelOfNode(navGraph, edge.to)

\* two units of one shaft stand on one level and a vertical edge joins them
C26_VerticalEdgeWithinALevel ==
    /\ Idle
    /\ \E edge \in AllEdges(navGraph) :
           /\ edge.type = "vertical"
           /\ IsCenter(navGraph, edge.from) /\ IsCenter(navGraph, edge.to)
           /\ edge.from # edge.to
           /\ LevelOfNode(navGraph, edge.from) = LevelOfNode(navGraph, edge.to)

\* what holds of the code: the horizontal half of C26, and vertical edges join
\* centers of STAIRS/ELEVATOR units
C26_HorizontalEdgesKeepLevel ==
    Idle =>
        \A edge \in AllEdges(navGraph) :
            /\ edge.type = "horizontal" =>
                   LevelOfNode(navGraph, edge.from) = LevelOfNode(navGraph, edge.to)
            /\ edge.type = "vertical" =>
                   IsCenter(navGraph, edge.from) /\ IsCenter(navGraph, edge.to)

(* C27 *)

\* the total weight of a path, each step by the lightest edge of the graph
\* between its two ids
WeightOf(g, path) == PathWeight(AllEdges(g), path)

OtherFilter(f) == IF f = NONE THEN ELEVATOR_ONLY ELSE NONE

NoVerticalEdge(g) == \A edge \in AllEdges(g) : edge.type # "vertical"

\* C27: whenever getPath under ELEVATOR_ONLY returns a path, getPath under
\* NONE returns a path for the same pair, of total weight less than or equal;
\* on a graph with no vertical edge the two filters give, for every pair,
\* paths of equal weight (or both none).
C27_ElevatorOnlyNeverShortens ==
    pc = "done" =>
        LET other == getPath(navGraph, startId, endId, OtherFilter(filter))
        IN  /\ (filter = ELEVATOR_ONLY /\ ~result.null) =>
                   /\ ~other.null
                   /\ WeightOf(navGraph, other.path) <= WeightOf(navGraph, result.path)
            /\ (filter = NONE /\ result.null) => other.null
            /\ NoVerticalEdge(navGraph) =>
                   /\ other.null = result.null
                   /\ WeightOf(navGraph, other.path) = WeightOf(navGraph, result.path)

\* under ELEVATOR_ONLY a path was returned that crosses floors, and the path
\* of NONE for the same pair is strictly lighter
C27_Witness ==
    /\ Returned
    /\ filter = ELEVATOR_ONLY
    /\ CrossesVertical
    /\ WeightOf(navGraph, getPath(navGraph, startId, endId, NONE).path)
           < WeightOf(navGraph, result.path)

-----------------------------------------------------------------------------
(* C30: a failed addDataset and the store *)

\* an upload whose addDataset throws while it inserts the rows
FailedUpload ==
    \E cd \in UploadsAt(db.seq) :
        addDataset(db, cd, TRUE).threw /\ handleDataUpload(cd)

\* the ids of the datasets with isActive = 1
ActiveIds(d) == {d.datasets[k].id : k \in {m \in 1..Len(d.datasets) : d.datasets[m].isActive}}

\* C30: when addDataset fails while it inserts a dataset's rows, the store is
\* as it was before the call: the datasets table holds no row of the new
\* dataset, the dataset that was active is still the active one, and the
\* campus data loaded afterwards are those of that dataset.
C30_FailedAddLeavesStore ==
    [][FailedUpload =>
          /\ db'.datasets = db.datasets
          /\ ActiveIds(db') = ActiveIds(db)
          /\ getActiveCampusData(db') = getActiveCampusData(db)]_vars

\* a dataset whose rows were rolled back is the active one beside a dataset
\* that holds units, and the data the App has loaded since are empty
C30_RolledBackDatasetIsLoaded ==
    /\ db.units # <<>>
    /\ \E id \in ActiveIds(db) : OfDataset(db.units, id) = <<>>
    /\ \E k \in 1..Len(datasets) : datasets[k].isActive /\ datasets[k].id \in ActiveIds(db)
    /\ data = EmptyCampusData

-----------------------------------------------------------------------------
(* C28: a change of the campus data and the map page *)

\* the paths getPath returns on graph g between units Controls offers
PathsOf(g, d) ==
    {getPath(g, s, e, f) :
        s \in selectableUnits(d), e \in selectableUnits(d), f \in AccessibilityFilter}

\* the page shows no start, no end, no path, no waypoints and no distance
NothingShown ==
    /\ startUnit = Null
    /\ endUnit = Null
    /\ pagePath = NullResult
    /\ waypoints = NoWaypoints
    /\ pathDistance = NoDistance

\* what the map page shows was computed on graph g of data d
ShownIsOf(g, d) ==
    /\ startUnit \in selectableUnits(d) \cup {Null}
    /\ endUnit \in selectableUnits(d) \cup {Null}
    /\ IF pagePath.null
       THEN waypoints = NoWaypoints /\ pathDistance = NoDistance
       ELSE /\ pagePath \in PathsOf(g, d)
            /\ waypoints = [null |-> FALSE, list |-> getPathWaypoints(g, pagePath.path)]
            /\ pathDistance = [null |-> FALSE,
                               value |-> calculatePathDistance(waypoints.list)]

\* C28: whenever the campus data given to MapPage change, the graph of every
\* later getPath call is the one built from the new data, and MapPage resets
\* start, end, path, waypoints and distance to null; no path, waypoint list or
\* distance computed on the graph of an earlier dataset is displayed.
C28_DataChangeResetsThePage ==
    /\ [][currentPage' = "map" /\ (data' # data \/ navGraph' # navGraph)
             => NothingShown']_vars
    /\ [](currentPage = "map" =>
             /\ navGraph = generateNavigationGraph(data)
             /\ ShownIsOf(navGraph, data))

\* the map page is mounted on the second dataset and shows nothing, while a
\* request of an earlier page is still to resolve
C28_Witness ==
    /\ currentPage = "map"
    /\ data.units = getActiveCampusData(addDataset(EmptyDb, Uploads[2], TRUE).db).units
    /\ [live |-> FALSE, path |-> <<>>] \in requests
    /\ NothingShown

-----------------------------------------------------------------------------
(* C29: the instruction text and the displayed path *)

\* request r was sent for a path the page no longer displays
IsStale(r) == ~r.live \/ pagePath.null \/ pagePath.path # r.path

\* C29: the instruction text always belongs to the displayed path: a request
\* that resolves after Clear Path, after a change of dataset or after a later
\* Find Path does not overwrite the instruction text, and no reply changes
\* path, waypoints or distance.
C29_TextBelongsToShownPath ==
    /\ [][\A r \in requests, kind \in ReplyKinds :
             InstructionsResolved(r, kind) =>
                 /\ IsStale(r) => pathInstructions' = pathInstructions
                 /\ UNCHANGED <<pagePath, waypoints, pathDistance>>]_vars
    /\ [](currentPage = "map" /\ pathInstructions.kind \in ReplyKinds =>
             ~pagePath.null /\ pathInstructions.path = pagePath.path)

\* the page displays no path and holds the steps written for a path
C29_TextOfAClearedPath ==
    /\ currentPage = "map"
    /\ pagePath.null
    /\ pathInstructions.kind = "steps"
    /\ pathInstructions.path # <<>>
    /\ requests = {}

\* the panel of Controls that holds the instruction text is rendered
PanelShown == ~pagePath.null \/ isGeneratingInstructions

\* the text the panel renders is of the path displayed
C29_RenderedTextIsOfShownPath ==
    currentPage = "map" /\ PanelShown /\ pathInstructions.kind \in ReplyKinds =>
        ~pagePath.null /\ pathInstructions.path = pagePath.path

\* no reply changes path, waypoints or distance
C29_ReplyKeepsTheRoute ==
    [][\A r \in requests, kind \in ReplyKinds :
          InstructionsResolved(r, kind) => UNCHANGED <<pagePath, waypoints, pathDistance>>]_vars

\* Find Path is disabled, with a start and an end chosen and no path shown,
\* until a request sent for a cleared path resolves
C29_FindPathWaitsForAClearedRequest ==
    /\ currentPage = "map"
    /\ startUnit # Null /\ endUnit # Null
    /\ pagePath.null
    /\ isGeneratingInstructions
    /\ ~ENABLED handleFindPath

====
